---------------------------- MODULE Spec2Model ----------------------------
(***************************************************************************)
(* A model of the ilana-orm core: the Model (entity) state machine of      *)
(* orm/Model.js (shipped in src/orm/QueryBuilder.ts from line 570 on), the *)
(* soft-delete filter and the eager-load engine of src/orm/QueryBuilder.js *)
(* and the ambient transaction slot of src/database/connection.js; and,    *)
(* each as a component of its own over the same variables: the MorphTo and *)
(* BelongsToMany relations of src/orm/Relation.js, the cast strategies of  *)
(* src/orm/QueryBuilder.d.ts, nested eager loading, the terminal calls,    *)
(* cursor pagination, the global scopes, the per-key casts, eager loading  *)
(* of a BelongsToMany relation, the lifecycle handlers of two types, the   *)
(* trashed-row modes of a builder and its clones, and concurrent           *)
(* firstOrCreate calls.                                                    *)
(*                                                                         *)
(* Lifecycle handlers are user callbacks: a handler is modelled by the     *)
(* value it returns (false, undefined or true); a handler that raises is   *)
(* outside the model.  The query engine is modelled by one table row and   *)
(* by the choice, at each insert / update / delete, between success and a  *)
(* raised error.                                                           *)
(***************************************************************************)
EXTENDS Integers, Sequences, FiniteSets, TLC

VARIABLES
    cls,          \* the static configuration of the entity type
    attributes,   \* Model.attributes
    original,     \* Model.original
    dirty,        \* Model._dirty
    exists,       \* Model.exists
    deferred,     \* Model._deferred
    wasRecentlyCreated,  \* Model.wasRecentlyCreated
    persisted,    \* history: exists has been true of this entity
    db,           \* the table row of the entity in the query engine
    clock,        \* the wall clock read by new Date()
    lastOp,       \* the operation that produced the current state
    arg,          \* the attrs argument of the last fill
    ret,          \* what the last operation returned
    trace,        \* the observable steps of the last operation, in order
    io,           \* the statements the last operation sent to the query engine
    rets,         \* <<event, value>>: what the pre-action handlers that ran returned
    \* eager loading (QueryBuilder.get with a relation requested)
    models,        \* the owners the primary query delivered, in order
    related,       \* the rows of the related table
    relKind,       \* the relation's class: HasMany, HasOne or BelongsTo
    relations,     \* relations[i]: model.relations[relation] of owner i
    queries,       \* the supplemental queries issued, in order
    relatedModels, \* the result of the supplemental query
    eagerPc,       \* where get() stands: start, queried, done (idle: no call)
    \* transactions (Database.transaction)
    currentTransaction,  \* Database._currentTransaction
    txPc,          \* txPc[b]: where block b stands
    txAttempt,     \* txAttempt[b]: the loop variable attempt
    txAttempts,     \* txAttempts[b]: the argument attempts
    txCalls,       \* txCalls[b]: how often the callback was invoked
    txError,       \* txError[b]: the failure of the current attempt: none, deadlock, other
    \* polymorphic reference (MorphTo)
    morphRegistry,  \* ModelRegistry.models: the registered type names
    morphType,  \* the owner's stored type name
    morphId,  \* the owner's stored related key (0: null)
    morphBinding,  \* what Relation.js holds as Model: the class, or the partial exports of a require cycle
    morphVia,  \* how the relation was resolved: none, getResults or eager
    morphOut,  \* what resolving it produced
    \* many-to-many with pivot data (BelongsToMany)
    pivotTable,  \* the rows of the pivot table, in insertion order
    pivotColumns,  \* BelongsToMany.pivotColumns of the relation last read
    pivotResults,  \* what getResults() last returned, in order
    pivotOp,  \* the last operation on the relation
    attached,  \* history: <<id, T>> of every attach(id, {c: T}) still in the table
    \* cast strategies (CustomCasts)
    castName,  \* the cast strategy under test
    castInput,  \* the value v handed to set
    castStored,  \* what set(v) returned
    castOutput,  \* what get(set(v)) returned
    castStage,  \* input, stored or read
    \* nested eager loading (a dotted path)
    pathLen,  \* k: the number of segments of the requested path
    pathRoots,  \* the keys of the root entities the primary query delivered
    pathTables,  \* pathTables[j]: the rows of the table segment j relates to
    pathFrontier,  \* the models of the get() currently running
    pathLevel,  \* the segments loaded so far on the current call chain
    pathQueries,  \* the supplemental queries issued, in order
    pathInFlight,  \* the supplemental queries awaiting their answer
    pathPc,  \* ask, wait, assign or done
    \* terminal calls with an eager-load request
    termTable,  \* the keys of the rows of the owner's table
    termCall,  \* the terminal call: get, first, or find with its id
    termDefined,  \* whether the requested relation is a method of the owner type
    termModels,  \* the keys of the models the primary query delivered
    termOut,  \* pending, returned or raised
    termPc,  \* primary, load or done
    \* cursor pagination (QueryBuilder.cursorPaginate)
    curTable,  \* the cursor-column values of the result set, by rank in the column's order
    curKind,  \* the column's type: number, or text (where rank 0 is the empty string)
    curPerPage,  \* the argument perPage
    curDirection,  \* the argument direction
    curCursor,  \* the cursor the next call is given: undefined, or nextCursor of the last page
    curHasNext,  \* hasNextPage of the last page
    curPages,  \* the data of the pages returned so far
    \* global scopes (Model.query)
    globalScopes,  \* Model.globalScopes: the entries of the Map, in insertion order
    registered,  \* history: <<type, name>> of the scopes each type has registered and not removed
    builder,  \* the builder last constructed: its type and its predicates in order
    scopeOp,  \* the last operation: add, remove, query, without or where
    \* one attribute with a cast or mutator (getAttribute / setAttribute)
    keyCast,  \* what is registered for the key: none, json, array, date, strategy (a MoneyCast) or mutator
    keyInput,  \* the value handed to setAttribute
    keyStored,  \* attributes[key] after setAttribute
    keyRead,  \* what getAttribute(key) returned
    keyStage,  \* input, stored or read
    \* eager loading of a BelongsToMany relation
    linkModels,  \* the owners the primary query delivered, by key, in order
    linkRelated,  \* the keys of the related table's rows
    linkPivot,  \* the rows of the pivot table
    linkRelations,  \* linkRelations[i]: model.relations[relation] of owner i
    linkQueries,  \* the supplemental queries issued, in order
    linkModelsFound,  \* the result of the supplemental query
    linkPc,  \* where get() stands: start, queried, done (idle: no call)
    \* lifecycle handlers of two entity types
    events,  \* Model.events: the handlers of each event, in registration order
    evFired,  \* the handlers the last fireEvent invoked, in order
    evOp,  \* the last call: its kind, the type it was made on and the event
    \* one builder: trashed-row modes, get, paginate, cursorPaginate, cursor / lazy
    pgTable,  \* the table's rows in key order: pgTable[i] is whether row i is soft-deleted
    pgSoft,  \* modelClass.softDeletes of the builder's type
    pgMode,  \* the builder's _onlyTrashed and _includeTrashed flags
    pgOp,  \* the last call on the builder, with the offset and limit of its rows
    pgResult,  \* what the last call delivered
    \* concurrent calls of firstOrCreate(attrs) with the same attrs
    focRows,  \* the keys of the table's rows that match attrs
    focUnique,  \* whether the table has a unique index over the keys of attrs
    focInserted,  \* the keys of the rows the calls have inserted
    focPc,  \* focPc[p]: where call p of firstOrCreate stands
    focRet  \* focRet[p]: the key of the entity call p holds or returned (0: none)

entityVars ==
    <<cls, attributes, original, dirty, exists, deferred, wasRecentlyCreated,
      persisted, db, clock, lastOp, arg, ret, trace, io, rets>>

eagerVars == <<models, related, relKind, relations, queries, relatedModels, eagerPc>>

txVars == <<currentTransaction, txPc, txAttempt, txAttempts, txCalls, txError>>

morphVars == <<morphRegistry, morphType, morphId, morphBinding, morphVia, morphOut>>

pivotVars == <<pivotTable, pivotColumns, pivotResults, pivotOp, attached>>

castVars == <<castName, castInput, castStored, castOutput, castStage>>

pathVars == <<pathLen, pathRoots, pathTables, pathFrontier, pathLevel, pathQueries, pathInFlight, pathPc>>

termVars == <<termTable, termCall, termDefined, termModels, termOut, termPc>>

cursorVars == <<curTable, curKind, curPerPage, curDirection, curCursor, curHasNext, curPages>>

scopeVars == <<globalScopes, registered, builder, scopeOp>>

keyVars == <<keyCast, keyInput, keyStored, keyRead, keyStage>>

linkVars == <<linkModels, linkRelated, linkPivot, linkRelations, linkQueries, linkModelsFound, linkPc>>

eventVars == <<events, evFired, evOp>>

pageVars == <<pgTable, pgSoft, pgMode, pgOp, pgResult>>

focVars == <<focRows, focUnique, focInserted, focPc, focRet>>

vars == <<entityVars, eagerVars, txVars, morphVars, pivotVars, castVars, pathVars, termVars, cursorVars, scopeVars, keyVars, linkVars, eventVars, pageVars, focVars>>

-----------------------------------------------------------------------------
(* Bounds *)

MaxClock == 2      \* operations that read the clock
MaxOwner == 2      \* owner keys are 1..MaxOwner
MaxBlocks == 2     \* transaction blocks in flight
MaxAttempts == 2   \* the largest attempts argument of Database.transaction
MaxAttach == 2     \* rows the pivot table holds
MaxSegments == 2   \* dot-separated segments of an eager-load path
MaxValue == 3      \* cursor-column values are 0..MaxValue
MaxPerPage == 2    \* the largest page size
MaxPages == 4      \* calls of cursorPaginate in one walk
MaxCents == 20     \* money amounts are 0.00 .. MaxCents / 100
MaxHandlers == 2   \* handlers registered for one event
MaxRows == 3       \* rows of the paginated table
MaxCallers == 2    \* concurrent calls of firstOrCreate

-----------------------------------------------------------------------------
(* Values *)

Keys == {"id", "name", "role", "created_at", "updated_at", "deleted_at"}
UserKeys == {"name", "role"}   \* the keys callers pass to the constructor and fill
SetKeys == {"name", "created_at"}   \* the keys callers assign one at a time
Undef == "undefined"      \* an absent key
Null == "null"
ValsOf == [k \in UserKeys |-> IF k = "name" THEN {"A", "B"} ELSE {"admin"}]
Past == "t0"              \* a time before the behaviour starts
TimeNames == <<"t1", "t2", "t3", "t4", "t5", "t6">>
\* The values a caller assigns to a key one at a time.
SetVals == [k \in SetKeys |-> IF k = "name" THEN ValsOf[k] ELSE {Past}]
NewId == "id1"            \* the key the engine generates for an inserted row
Uuid == "uuid1"           \* the surrogate key of generateUuid

NoAttrs == [k \in Keys |-> Undef]

\* An object literal over UserKeys, absent keys undefined.
AttrInputs ==
    {[k \in Keys |-> IF k \in S THEN f[k] ELSE Undef] :
        S \in SUBSET UserKeys, f \in {g \in [UserKeys -> {"A", "B", "admin"}] :
                                         \A k \in UserKeys : g[k] \in ValsOf[k]}}

Falsy(v) == v \in {Undef, Null}

Min(S) == CHOOSE x \in S : \A y \in S : x <= y

\* Handler return values: exactly false, or undefined (what an async handler
\* without a return statement resolves to).  fireEvent tests "=== false", so
\* every other value acts as undefined does.
HandlerRets == {"false", "undefined"}

\* The handlers registered for one lifecycle event, in registration order, each
\* given by what it returns: none, one that lets the operation through, one that
\* vetoes it, and a veto behind a handler that lets it through.
HandlerLists == {<<>>, <<"undefined">>, <<"false">>, <<"undefined", "false">>}

-----------------------------------------------------------------------------
(* Static configuration *)

\* The entity types of the model.  Between them they cover soft deletes on and
\* off, timestamps on and off, a generated integer key and a string surrogate
\* key, and the three mass-assignment policies: an allow-list, the default
\* deny-all wildcard, a deny-list.
Classes ==
    {[softDeletes |-> FALSE, timestamps |-> TRUE, incrementing |-> TRUE,
      fillable |-> {"name"}, guarded |-> {"*"}],
     [softDeletes |-> TRUE, timestamps |-> TRUE, incrementing |-> TRUE,
      fillable |-> {}, guarded |-> {"*"}],
     [softDeletes |-> TRUE, timestamps |-> FALSE, incrementing |-> FALSE,
      fillable |-> {}, guarded |-> {"role"}],
     [softDeletes |-> FALSE, timestamps |-> FALSE, incrementing |-> FALSE,
      fillable |-> {"name"}, guarded |-> {"*"}]}

-----------------------------------------------------------------------------
(* Model *)

Self ==
    [attributes |-> attributes, original |-> original, dirty |-> dirty,
     exists |-> exists, deferred |-> deferred,
     wasRecentlyCreated |-> wasRecentlyCreated]

getKey(m) == m.attributes["id"]

getAttribute(m, k) == m.attributes[k]

\* Mutant: the write is not recorded in the dirty set.
setAttributeUntracked(m, k, v) == [m EXCEPT !.attributes[k] = v]

\* Mutant: the write is recorded whether or not the entity exists.
setAttributeAlwaysDirty(m, k, v) ==
    [m EXCEPT !.attributes[k] = v, !.dirty = @ \cup {k}]

setAttribute(m, k, v) ==
    [m EXCEPT !.attributes[k] = v,
              !.dirty = IF m.deferred = NoAttrs /\ m.exists THEN @ \cup {k} ELSE @]

\* Mutant: the snapshot is taken but the dirty set is kept.
syncOriginalKeepsDirty(m) == [m EXCEPT !.original = m.attributes]

syncOriginal(m) == [m EXCEPT !.original = m.attributes, !.dirty = {}]

RECURSIVE setAll(_, _, _)
setAll(m, attrs, ks) ==
    IF ks = {} THEN m
    ELSE LET k == CHOOSE x \in ks : TRUE
         IN setAll(setAttribute(m, k, attrs[k]), attrs, ks \ {k})

present(attrs) == {k \in Keys : attrs[k] # Undef}

initialize(m) ==
    IF m.deferred = NoAttrs THEN m
    ELSE [syncOriginal(setAll(m, m.deferred, present(m.deferred)))
             EXCEPT !.deferred = NoAttrs]

\* Mutant: the deny-all wildcard is not honoured.
isFillableNoWildcard(c, k) ==
    IF c.fillable # {} THEN k \in c.fillable ELSE k \notin c.guarded

isFillable(c, k) ==
    IF c.fillable # {} THEN k \in c.fillable
    ELSE IF "*" \in c.guarded THEN FALSE
    ELSE k \notin c.guarded

fill(c, m, attrs) ==
    setAll(m, attrs, {k \in present(attrs) : isFillable(c, k)})

\* Mutant: every entity counts as dirty.
isDirtyAlways(m) == TRUE

isDirty(m) == m.dirty # {}

\* Mutant: every attribute the entity holds is reported dirty.
getDirtyAll(m) == [k \in present(m.attributes) |-> m.attributes[k]]

getDirty(m) == [k \in m.dirty |-> m.attributes[k]]

\* The handlers of one event that run: fireEvent stops at the first false.
ranHandlers(hs) ==
    LET stops == {i \in 1..Len(hs) : hs[i] = "false"}
    IN IF stops = {} THEN hs ELSE SubSeq(hs, 1, Min(stops))

\* Mutant: a handler's veto is not looked at.
fireEventIgnoresVeto(hs) == TRUE

fireEvent(hs) == \A i \in 1..Len(hs) : hs[i] # "false"

ranRets(evt, hs) == {<<evt, ranHandlers(hs)[i]>> : i \in 1..Len(ranHandlers(hs))}


-----------------------------------------------------------------------------
(* The query engine: one table holding at most the row of the entity *)

NoRow == [present |-> FALSE, cols |-> NoAttrs]

matches(d, m) == d.present /\ d.cols["id"] = getKey(m)

Stmt(op, ks, data) ==
    [op |-> op, keys |-> ks, data |-> [k \in Keys |-> IF k \in ks THEN data[k] ELSE Undef]]

\* The columns of the entity type's table.
Columns(c) ==
    {"id", "name", "role"}
        \cup (IF c.timestamps THEN {"created_at", "updated_at"} ELSE {})
        \cup (IF c.softDeletes THEN {"deleted_at"} ELSE {})

\* A column the statement gives no value is NULL.
insertRow(c, attrs, id) ==
    [present |-> TRUE,
     cols |-> [k \in Keys |-> IF k \notin Columns(c) THEN Undef
                              ELSE IF k = "id" THEN id
                              ELSE IF attrs[k] = Undef THEN Null
                              ELSE attrs[k]]]

updateRow(d, m, ks) ==
    IF matches(d, m)
    THEN [d EXCEPT !.cols = [k \in Keys |-> IF k \in ks THEN m.attributes[k] ELSE @[k]]]
    ELSE d

deleteRow(d, m) == IF matches(d, m) THEN NoRow ELSE d

\* QueryBuilder.get(): the rows a builder in the given trashed-row mode delivers.
get(c, d, onlyTrashed, includeTrashed) ==
    IF ~d.present THEN {}
    ELSE IF c.softDeletes /\ onlyTrashed
         THEN {r \in {d.cols} : r["deleted_at"] \notin {Undef, Null}}
    ELSE IF c.softDeletes /\ ~includeTrashed
         THEN {r \in {d.cols} : r["deleted_at"] \in {Undef, Null}}
    ELSE {d.cols}

\* A row materialised by get / first / find.
hydrate(row) ==
    initialize([attributes |-> NoAttrs, original |-> NoAttrs, dirty |-> {},
                exists |-> TRUE, deferred |-> row, wasRecentlyCreated |-> FALSE])

\* The rows the table may hold when the behaviour starts: written at Past,
\* live or (for a soft-delete type) trashed.
StoredRows(c) ==
    {insertRow(c, [NoAttrs EXCEPT !["name"] = "A", !["created_at"] = Past,
                                  !["updated_at"] = Past, !["deleted_at"] = t], NewId) :
        t \in IF c.softDeletes THEN {Undef, Past} ELSE {Undef}}

-----------------------------------------------------------------------------
(* save / delete / restore *)

Hooks ==
    [creating : HandlerLists, updating : HandlerLists, saving : HandlerLists,
     deleting : HandlerLists, restoring : HandlerLists]

NoHandlers ==
    [creating |-> <<>>, updating |-> <<>>, saving |-> <<>>,
     deleting |-> <<>>, restoring |-> <<>>]

Outcome(m, d, t, i, r, rs) ==
    [m |-> m, db |-> d, trace |-> t, io |-> i, ret |-> r, rets |-> rs, arg |-> NoAttrs]

saveInsert(c, m, d, h, ok, now) ==
    LET rs1 == ranRets("creating", h.creating)
        rs2 == rs1 \cup ranRets("saving", h.saving)
    IN  IF ~fireEvent(h.creating)
        THEN Outcome(m, d, <<"creating">>, <<>>, "false", rs1)
        ELSE IF ~fireEvent(h.saving)
        THEN Outcome(m, d, <<"creating", "saving">>, <<>>, "false", rs2)
        ELSE
          LET m1 == IF c.timestamps
                    THEN setAttribute(setAttribute(m, "created_at", now), "updated_at", now)
                    ELSE m
              m2 == IF ~c.incrementing /\ Falsy(getKey(m1))
                    THEN setAttribute(m1, "id", Uuid)
                    ELSE m1
              stmt == Stmt("insert", present(m2.attributes), m2.attributes)
              id == IF Falsy(getKey(m2)) THEN NewId ELSE getKey(m2)
              m3 == IF c.incrementing THEN setAttribute(m2, "id", id) ELSE m2
              m4 == [m3 EXCEPT !.exists = TRUE, !.wasRecentlyCreated = TRUE]
          IN  IF ~ok
              THEN Outcome(m2, d, <<"creating", "saving", "insert">>, <<stmt>>, "throw", rs2)
              ELSE Outcome(syncOriginal(m4), insertRow(c, m2.attributes, id),
                           <<"creating", "saving", "insert", "exists", "created", "saved", "sync">>,
                           <<stmt>>, "true", rs2)

saveUpdate(c, m, d, h, ok, now) ==
    LET rs1 == ranRets("updating", h.updating)
        rs2 == rs1 \cup ranRets("saving", h.saving)
    IN  IF ~fireEvent(h.updating)
        THEN Outcome(m, d, <<"updating">>, <<>>, "false", rs1)
        ELSE IF ~fireEvent(h.saving)
        THEN Outcome(m, d, <<"updating", "saving">>, <<>>, "false", rs2)
        ELSE
          LET m1 == IF c.timestamps THEN setAttribute(m, "updated_at", now) ELSE m
              ks == DOMAIN getDirty(m1) \ {"created_at"}
              stmt == Stmt("update", ks, m1.attributes)
          IN  IF ks = {}
              THEN Outcome(syncOriginal(m1), d,
                           <<"updating", "saving", "updated", "saved", "sync">>,
                           <<>>, "true", rs2)
              ELSE IF ~ok
              THEN Outcome(m1, d, <<"updating", "saving", "update">>, <<stmt>>, "throw", rs2)
              ELSE Outcome(syncOriginal(m1), updateRow(d, m1, ks),
                           <<"updating", "saving", "update", "updated", "saved", "sync">>,
                           <<stmt>>, "true", rs2)

\* Mutant: the update path fires updated and saved before it sends the update.
saveAnnouncesFirst(c, m0, d, h, ok, now) ==
    LET m == initialize(m0)
        o == IF ~m.exists THEN saveInsert(c, m, d, h, ok, now)
             ELSE IF isDirty(m) THEN saveUpdate(c, m, d, h, ok, now)
             ELSE Outcome(m, d, <<>>, <<>>, "true", {})
    IN  IF o.ret = "true" /\ o.io # <<>> /\ o.io[1].op = "update"
        THEN [o EXCEPT !.trace = <<"updating", "saving", "updated", "saved", "update", "sync">>]
        ELSE o

\* Mutant: original is resynced when the engine raises, too.
saveSyncsOnFailure(c, m0, d, h, ok, now) ==
    LET m == initialize(m0)
        o == IF ~m.exists THEN saveInsert(c, m, d, h, ok, now)
             ELSE IF isDirty(m) THEN saveUpdate(c, m, d, h, ok, now)
             ELSE Outcome(m, d, <<>>, <<>>, "true", {})
    IN  IF o.ret = "throw" THEN [o EXCEPT !.m = syncOriginal(o.m)] ELSE o

save(c, m0, d, h, ok, now) ==
    LET m == initialize(m0)
    IN  IF ~m.exists THEN saveInsert(c, m, d, h, ok, now)
        ELSE IF isDirty(m) THEN saveUpdate(c, m, d, h, ok, now)
        ELSE Outcome(m, d, <<>>, <<>>, "true", {})

delete(c, m, d, h, ok, now) ==
    IF ~m.exists THEN Outcome(m, d, <<>>, <<>>, "false", {})
    ELSE
      LET rs == ranRets("deleting", h.deleting)
      IN  IF c.softDeletes
          THEN LET s == save(c, setAttribute(m, "deleted_at", now), d, h, ok, now)
               IN  IF s.ret = "throw"
                   THEN Outcome(s.m, s.db, <<"deleting">> \o s.trace, s.io, "throw",
                                rs \cup s.rets)
                   ELSE Outcome(s.m, s.db, <<"deleting">> \o s.trace \o <<"deleted">>,
                                s.io, "true", rs \cup s.rets)
          ELSE LET stmt == Stmt("delete", {}, NoAttrs)
               IN  IF ~ok
                   THEN Outcome(m, d, <<"deleting", "delete">>, <<stmt>>, "throw", rs)
                   ELSE Outcome([m EXCEPT !.exists = FALSE], deleteRow(d, m),
                                <<"deleting", "delete", "deleted">>, <<stmt>>, "true", rs)

restorable(c, m) == c.softDeletes /\ ~Falsy(getAttribute(m, "deleted_at"))

\* Model.trashed(): the sentinel is compared with null alone.
trashed(c, m) == c.softDeletes /\ getAttribute(m, "deleted_at") # Null

restore(c, m, d, h, ok, now) ==
    IF ~restorable(c, m)
    THEN Outcome(m, d, <<>>, <<>>, "false", {})
    ELSE
      LET rs == ranRets("restoring", h.restoring)
          s == save(c, setAttribute(m, "deleted_at", Null), d, h, ok, now)
      IN  IF s.ret = "throw"
          THEN Outcome(s.m, s.db, <<"restoring">> \o s.trace, s.io, "throw", rs \cup s.rets)
          ELSE Outcome(s.m, s.db, <<"restoring">> \o s.trace \o <<"restored">>,
                       s.io, "true", rs \cup s.rets)

-----------------------------------------------------------------------------
(* The components at rest *)

Blocks == 1..MaxBlocks

\* A transaction handle: <<block, attempt>>; NoTrx is the empty slot (null).
NoTrx == <<0, 0>>

\* No query with an eager-load request is running.
EagerIdle ==
    /\ models = <<>>
    /\ related = {}
    /\ relKind = "HasMany"
    /\ relations = <<>>
    /\ queries = <<>>
    /\ relatedModels = {}
    /\ eagerPc = "idle"

\* No transaction block has been started.
TxIdle ==
    /\ currentTransaction = NoTrx
    /\ txPc = [b \in Blocks |-> "idle"]
    /\ txAttempt = [b \in Blocks |-> 0]
    /\ txAttempts = [b \in Blocks |-> 0]
    /\ txCalls = [b \in Blocks |-> 0]
    /\ txError = [b \in Blocks |-> "none"]

\* No entity is being worked on.
EntityIdle ==
    /\ cls = CHOOSE c \in Classes : ~c.softDeletes /\ c.timestamps
    /\ db = NoRow
    /\ attributes = NoAttrs
    /\ original = NoAttrs
    /\ exists = FALSE
    /\ persisted = FALSE
    /\ deferred = NoAttrs
    /\ lastOp = "new"
    /\ dirty = {}
    /\ wasRecentlyCreated = FALSE
    /\ clock = 1
    /\ arg = NoAttrs
    /\ ret = "none"
    /\ trace = <<>>
    /\ io = <<>>
    /\ rets = {}

\* No MorphTo relation is being resolved.
MorphIdle ==
    /\ morphRegistry = {}
    /\ morphType = "null"
    /\ morphId = 0
    /\ morphBinding = "Model"
    /\ morphVia = "none"
    /\ morphOut = "none"

\* No BelongsToMany relation has been touched.
PivotIdle ==
    /\ pivotTable = <<>>
    /\ pivotColumns = {}
    /\ pivotResults = <<>>
    /\ pivotOp = "none"
    /\ attached = {}

\* JavaScript values: a number in hundredths, a string, an object or array by
\* its JSON text, a Date by its ISO text, null, or a raised error.
Num(n) == [t |-> "number", n |-> n, s |-> ""]
Str(x) == [t |-> "string", n |-> 0, s |-> x]
Obj(x) == [t |-> "object", n |-> 0, s |-> x]
Arr(x) == [t |-> "array", n |-> 0, s |-> x]
DateOf(x) == [t |-> "date", n |-> 0, s |-> x]
NullV == [t |-> "null", n |-> 0, s |-> ""]
Thrown == [t |-> "throw", n |-> 0, s |-> ""]

\* No cast is being exercised.
CastIdle ==
    /\ castName = "none"
    /\ castInput = NullV
    /\ castStored = NullV
    /\ castOutput = NullV
    /\ castStage = "none"

\* No dotted path is being loaded.
PathIdle ==
    /\ pathLen = 0
    /\ pathRoots = {}
    /\ pathTables = <<>>
    /\ pathFrontier = {}
    /\ pathLevel = 0
    /\ pathQueries = <<>>
    /\ pathInFlight = 0
    /\ pathPc = "idle"

\* No terminal call is running.
TermIdle ==
    /\ termTable = {}
    /\ termCall = [op |-> "get", id |-> 0]
    /\ termDefined = TRUE
    /\ termModels = {}
    /\ termOut = "pending"
    /\ termPc = "idle"

\* An argument left out.
NoCursor == [given |-> FALSE, v |-> 0]

\* No walk over pages is going on.
CursorIdle ==
    /\ curTable = {}
    /\ curKind = "number"
    /\ curPerPage = 1
    /\ curDirection = "asc"
    /\ curCursor = NoCursor
    /\ curHasNext = FALSE
    /\ curPages = <<>>

\* A builder nobody has constructed yet.
NoBuilder == [type |-> "none", without |-> "none", wheres |-> <<>>]

\* No scope is registered and no builder constructed.
ScopeIdle ==
    /\ globalScopes = <<>>
    /\ registered = {}
    /\ builder = NoBuilder
    /\ scopeOp = "none"

\* No attribute with a cast is being written or read.
KeyIdle ==
    /\ keyCast = "none"
    /\ keyInput = NullV
    /\ keyStored = NullV
    /\ keyRead = NullV
    /\ keyStage = "none"

LinkIdle ==
    /\ linkModels = <<>>
    /\ linkRelated = {}
    /\ linkPivot = {}
    /\ linkRelations = <<>>
    /\ linkQueries = <<>>
    /\ linkModelsFound = {}
    /\ linkPc = "idle"

\* No handler is registered and no event fired.
EventIdle ==
    /\ events = [e \in {"saving", "deleting"} |-> <<>>]
    /\ evFired = <<>>
    /\ evOp = [kind |-> "none", type |-> "none", event |-> "none"]

\* A builder on which nothing has been called.
DefaultMode == [only |-> FALSE, include |-> FALSE]
NoCall == [kind |-> "none", offset |-> 0, limit |-> 0]
NoResult == [data |-> <<>>, total |-> 0, lastPage |-> 0, to |-> 0, nextPage |-> 0]

PageIdle ==
    /\ pgTable = <<>>
    /\ pgSoft = FALSE
    /\ pgMode = DefaultMode
    /\ pgOp = NoCall
    /\ pgResult = NoResult

\* No firstOrCreate call is in flight.
FocIdle ==
    /\ focRows = {}
    /\ focUnique = FALSE
    /\ focInserted = {}
    /\ focPc = <<>>
    /\ focRet = <<>>

\* Every component but c is at rest.
AtRest(c) ==
    /\ IF c = "entity" THEN TRUE ELSE EntityIdle
    /\ IF c = "eager" THEN TRUE ELSE EagerIdle
    /\ IF c = "tx" THEN TRUE ELSE TxIdle
    /\ IF c = "morph" THEN TRUE ELSE MorphIdle
    /\ IF c = "pivot" THEN TRUE ELSE PivotIdle
    /\ IF c = "cast" THEN TRUE ELSE CastIdle
    /\ IF c = "path" THEN TRUE ELSE PathIdle
    /\ IF c = "term" THEN TRUE ELSE TermIdle
    /\ IF c = "cursor" THEN TRUE ELSE CursorIdle
    /\ IF c = "scope" THEN TRUE ELSE ScopeIdle
    /\ IF c = "key" THEN TRUE ELSE KeyIdle
    /\ IF c = "link" THEN TRUE ELSE LinkIdle
    /\ IF c = "event" THEN TRUE ELSE EventIdle
    /\ IF c = "page" THEN TRUE ELSE PageIdle
    /\ IF c = "foc" THEN TRUE ELSE FocIdle

\* A step of component c leaves the other components alone.
Frame(c) ==
    /\ IF c = "entity" THEN TRUE ELSE UNCHANGED entityVars
    /\ IF c = "eager" THEN TRUE ELSE UNCHANGED eagerVars
    /\ IF c = "tx" THEN TRUE ELSE UNCHANGED txVars
    /\ IF c = "morph" THEN TRUE ELSE UNCHANGED morphVars
    /\ IF c = "pivot" THEN TRUE ELSE UNCHANGED pivotVars
    /\ IF c = "cast" THEN TRUE ELSE UNCHANGED castVars
    /\ IF c = "path" THEN TRUE ELSE UNCHANGED pathVars
    /\ IF c = "term" THEN TRUE ELSE UNCHANGED termVars
    /\ IF c = "cursor" THEN TRUE ELSE UNCHANGED cursorVars
    /\ IF c = "scope" THEN TRUE ELSE UNCHANGED scopeVars
    /\ IF c = "key" THEN TRUE ELSE UNCHANGED keyVars
    /\ IF c = "link" THEN TRUE ELSE UNCHANGED linkVars
    /\ IF c = "event" THEN TRUE ELSE UNCHANGED eventVars
    /\ IF c = "page" THEN TRUE ELSE UNCHANGED pageVars
    /\ IF c = "foc" THEN TRUE ELSE UNCHANGED focVars

-----------------------------------------------------------------------------
(* Entity operations *)

Now == TimeNames[clock]

\* The entity, the engine and the report of the operation after outcome o.
Becomes(op, o) ==
    /\ attributes' = o.m.attributes
    /\ original' = o.m.original
    /\ dirty' = o.m.dirty
    /\ exists' = o.m.exists
    /\ deferred' = o.m.deferred
    /\ wasRecentlyCreated' = o.m.wasRecentlyCreated
    /\ persisted' = (o.m.exists \/ (op # "find" /\ persisted))
    /\ db' = o.db
    /\ lastOp' = op
    /\ arg' = o.arg
    /\ ret' = o.ret
    /\ trace' = o.trace
    /\ io' = o.io
    /\ rets' = o.rets
    /\ Frame("entity")

Quiet(m) == Outcome(m, db, <<>>, <<>>, "none", {})

InitEntity ==
    /\ cls \in Classes
    /\ \/ \* new Model(attrs) on an empty table
          /\ db = NoRow
          /\ attributes = NoAttrs
          /\ original = NoAttrs
          /\ exists = FALSE
          /\ persisted = FALSE
          /\ deferred \in AttrInputs
          /\ lastOp = "new"
       \/ \* an entity that get / first / find read from its stored row
          /\ db \in StoredRows(cls)
          /\ attributes = hydrate(db.cols).attributes
          /\ original = hydrate(db.cols).original
          /\ exists = TRUE
          /\ persisted = TRUE
          /\ deferred = NoAttrs
          /\ lastOp = "find"
    /\ dirty = {}
    /\ wasRecentlyCreated = FALSE
    /\ clock = 1
    /\ arg = NoAttrs
    /\ ret = "none"
    /\ trace = <<>>
    /\ io = <<>>
    /\ rets = {}
    /\ AtRest("entity")

\* Model.make: the constructor's attributes are applied.
Make ==
    /\ deferred # NoAttrs
    /\ Becomes("make", Quiet(initialize(Self)))
    /\ UNCHANGED <<cls, clock>>

SetAttr ==
    \E k \in SetKeys : \E v \in SetVals[k] :
        /\ Becomes("set", Quiet(setAttribute(Self, k, v)))
        /\ UNCHANGED <<cls, clock>>

Fill ==
    \E attrs \in AttrInputs :
        /\ Becomes("fill", [Quiet(fill(cls, Self, attrs)) EXCEPT !.arg = attrs])
        /\ UNCHANGED <<cls, clock>>

\* The handler lists an operation can tell apart: those of an event it fires.
Registered(fires) == IF fires THEN HandlerLists ELSE {<<>>}

\* The engine's answers an operation can tell apart: it may fail only when asked.
Answers(asked) == IF asked THEN BOOLEAN ELSE {TRUE}

\* Whether save() on m fires its pre-action hooks.
savePending(m) == ~initialize(m).exists \/ isDirty(initialize(m))

Save ==
    \E h1 \in Registered(savePending(Self)) :
    \E hs \in Registered(savePending(Self) /\ fireEvent(h1)) :
    \E ok \in Answers(savePending(Self) /\ fireEvent(h1) /\ fireEvent(hs)) :
        /\ clock <= MaxClock
        /\ Becomes("save", save(cls, Self, db,
                [NoHandlers EXCEPT !.creating = h1, !.updating = h1, !.saving = hs],
                ok, Now))
        /\ clock' = clock + 1
        /\ UNCHANGED cls

Delete ==
    \E hd \in Registered(exists) :
    \E hu \in Registered(exists /\ cls.softDeletes) :
    \E hs \in Registered(exists /\ cls.softDeletes /\ fireEvent(hu)) :
    \E ok \in Answers(exists /\ fireEvent(hu) /\ fireEvent(hs)) :
        /\ clock <= MaxClock
        /\ Becomes("delete", delete(cls, Self, db,
                [NoHandlers EXCEPT !.deleting = hd, !.updating = hu, !.saving = hs],
                ok, Now))
        /\ clock' = clock + 1
        /\ UNCHANGED cls

Restore ==
    \E hr \in Registered(restorable(cls, Self)) :
    \E hu \in Registered(restorable(cls, Self)) :
    \E hs \in Registered(restorable(cls, Self) /\ fireEvent(hu)) :
    \E ok \in Answers(restorable(cls, Self) /\ fireEvent(hu) /\ fireEvent(hs)) :
        /\ clock <= MaxClock
        /\ Becomes("restore", restore(cls, Self, db,
                [NoHandlers EXCEPT !.restoring = hr, !.creating = hu, !.updating = hu,
                                   !.saving = hs],
                ok, Now))
        /\ clock' = clock + 1
        /\ UNCHANGED cls

\* A query's get / first / find delivers the row as a fresh entity.
Find ==
    \E onlyTrashed \in BOOLEAN, includeTrashed \in BOOLEAN :
        \E row \in get(cls, db, onlyTrashed, includeTrashed) :
            /\ Becomes("find", Quiet(hydrate(row)))
            /\ UNCHANGED <<cls, clock>>

Next == Make \/ SetAttr \/ Fill \/ Save \/ Delete \/ Restore \/ Find

Spec == InitEntity /\ [][Next]_vars

-----------------------------------------------------------------------------
(* Eager loading: QueryBuilder.get with one relation requested *)

OwnerIds == 1..MaxOwner
ItemIds == {1, 10, 11, 12}     \* keys of related rows; 1 is also an owner key
NoKey == 0                     \* a null key column
RelKinds == {"HasMany", "HasOne", "BelongsTo"}

\* An owner row: its key (the relation's localKey, a column that may hold
\* null when it is not the primary key) and, for BelongsTo, the foreign key it
\* carries.
OwnerRows == [id : OwnerIds \cup {NoKey}, fk : {NoKey, 10}]

\* A related row: its primary key and, for HasMany / HasOne, the foreign key
\* naming its owner.
RelatedRows == [id : ItemIds, fk : OwnerIds]

\* What the primary query can deliver: owners with distinct keys, in any order.
OwnerLists ==
    {ms \in UNION {[1..n -> OwnerRows] : n \in 0..MaxOwner} :
        \A i, j \in 1..Len(ms) :
            (ms[i].id = ms[j].id /\ ms[i].id # NoKey) => i = j}

\* What the related table can hold: rows with distinct primary keys.
RelatedTables ==
    {S \in SUBSET RelatedRows : \A r, s \in S : r.id = s.id => r = s}

NotLoaded == [loaded |-> FALSE, rows |-> {}]

\* Array.prototype.filter(Boolean) over the values of a key column.
Truthy(S) == {v \in S : v # NoKey}

localValues(ms) == Truthy({ms[i].id : i \in 1..Len(ms)})

foreignValues(ms) == Truthy({ms[i].fk : i \in 1..Len(ms)})

\* The supplemental query of loadRelation: whereIn on the related table's
\* primary key for BelongsTo, on the foreign key otherwise.
relationQuery(kind, ms) ==
    IF kind = "BelongsTo"
    THEN [col |-> "id", vals |-> foreignValues(ms)]
    ELSE [col |-> "fk", vals |-> localValues(ms)]

\* The rows a supplemental query selects.
Select(q, table) ==
    {r \in table : IF q.col = "id" THEN r.id \in q.vals ELSE r.fk \in q.vals}

\* The grouping key of the TypeScript loadRelation: the foreign key.
groupKeyByForeignKey(r) == r.fk

\* The grouping key of loadRelation: the related class's primary key,
\* whatever the relation's class.
groupKey(r) == r.id

\* grouped[key] || []
grouped(rows, key) == {r \in rows : groupKey(r) = key}

\* The value an owner is matched by.
matchValue(kind, m) == IF kind = "BelongsTo" THEN m.fk ELSE m.id

\* related[0] of a group delivered in primary-key order, as a set.
FirstOf(S) == IF S = {} THEN {} ELSE {CHOOSE r \in S : \A s \in S : r.id <= s.id}

\* model.relations[relation] after the assignment loop.
assigned(kind, m, rows) ==
    [loaded |-> TRUE,
     rows |-> IF kind \in {"HasOne", "BelongsTo"}
              THEN FirstOf(grouped(rows, matchValue(kind, m)))
              ELSE grouped(rows, matchValue(kind, m))]

\* get() has run the primary query and holds its models.
InitEager ==
    /\ models \in OwnerLists
    /\ related \in RelatedTables
    /\ relKind \in RelKinds
    /\ relations = [i \in 1..Len(models) |-> NotLoaded]
    /\ queries = <<>>
    /\ relatedModels = {}
    /\ eagerPc = "start"
    /\ AtRest("eager")

\* loadRelations / loadRelation up to the await of the supplemental query.
EagerQuery ==
    /\ eagerPc = "start"
    /\ IF Len(models) = 0 \/ localValues(models) = {}
       THEN /\ eagerPc' = "done"
            /\ UNCHANGED <<queries, relatedModels>>
       ELSE /\ queries' = Append(queries, relationQuery(relKind, models))
            /\ relatedModels' = Select(relationQuery(relKind, models), related)
            /\ eagerPc' = "queried"
    /\ UNCHANGED <<models, related, relKind, relations>>
    /\ Frame("eager")

\* loadRelation after the await: group the related models, assign each owner.
EagerAssign ==
    /\ eagerPc = "queried"
    /\ relations' = [i \in 1..Len(models) |-> assigned(relKind, models[i], relatedModels)]
    /\ eagerPc' = "done"
    /\ UNCHANGED <<models, related, relKind, queries, relatedModels>>
    /\ Frame("eager")

NextEager == EagerQuery \/ EagerAssign

SpecEager == InitEager /\ [][NextEager]_vars

-----------------------------------------------------------------------------
(* Transactions: Database.transaction, blocks interleaving at their awaits. *)
(* A nested block is the interleaving in which the inner block is called    *)
(* and settled while the outer block's callback is suspended.               *)

Trx(b) == <<b, txAttempt[b]>>

\* What an attempt can fail with: a serialization or deadlock failure of the
\* engine, or anything else the callback or the engine raises.
Failures == {"deadlock", "other"}

\* transaction(callback, attempts): the first pass of the loop asks the
\* connection for a transaction.
TxCall(b) ==
    /\ txPc[b] = "idle"
    /\ \E n \in 1..MaxAttempts : txAttempts' = [txAttempts EXCEPT ![b] = n]
    /\ txAttempt' = [txAttempt EXCEPT ![b] = 1]
    /\ txPc' = [txPc EXCEPT ![b] = "begin"]
    /\ UNCHANGED <<currentTransaction, txCalls, txError>>
    /\ Frame("tx")

\* The connection calls back with trx: the slot is set, the callback starts.
TxEnter(b) ==
    /\ txPc[b] = "begin"
    /\ currentTransaction' = Trx(b)
    /\ txCalls' = [txCalls EXCEPT ![b] = txCalls[b] + 1]
    /\ txPc' = [txPc EXCEPT ![b] = "callback"]
    /\ UNCHANGED <<txAttempt, txAttempts, txError>>
    /\ Frame("tx")

\* The callback returns or raises: the finally clause empties the slot.
TxLeave(b) ==
    /\ txPc[b] = "callback"
    /\ currentTransaction' = NoTrx
    /\ \E e \in {"none"} \cup Failures :
          /\ txError' = [txError EXCEPT ![b] = e]
          /\ txPc' = [txPc EXCEPT ![b] = IF e = "none" THEN "committing" ELSE "rollingBack"]
    /\ UNCHANGED <<txAttempt, txAttempts, txCalls>>
    /\ Frame("tx")

\* The connection commits and transaction() returns the callback's result.
TxCommit(b) ==
    /\ txPc[b] = "committing"
    /\ txPc' = [txPc EXCEPT ![b] = "returned"]
    /\ UNCHANGED <<currentTransaction, txAttempt, txAttempts, txCalls, txError>>
    /\ Frame("tx")

\* The connection rolls back and the catch clause rethrows on the last
\* attempt, sleeps otherwise, whatever the error is.
TxRollback(b) ==
    /\ txPc[b] = "rollingBack"
    /\ txPc' = [txPc EXCEPT ![b] = IF txAttempt[b] = txAttempts[b]
                                   THEN "thrown" ELSE "sleeping"]
    /\ UNCHANGED <<currentTransaction, txAttempt, txAttempts, txCalls, txError>>
    /\ Frame("tx")

\* The sleep is over: the next pass of the loop.
TxRetry(b) ==
    /\ txPc[b] = "sleeping"
    /\ txAttempt' = [txAttempt EXCEPT ![b] = txAttempt[b] + 1]
    /\ txError' = [txError EXCEPT ![b] = "none"]
    /\ txPc' = [txPc EXCEPT ![b] = "begin"]
    /\ UNCHANGED <<currentTransaction, txAttempts, txCalls>>
    /\ Frame("tx")

\* No call of Database.transaction has been made.
InitTx == TxIdle /\ AtRest("tx")

NextTx ==
    \E b \in Blocks :
        \/ TxCall(b)
        \/ TxEnter(b)
        \/ TxLeave(b)
        \/ TxCommit(b)
        \/ TxRollback(b)
        \/ TxRetry(b)

SpecTx == InitTx /\ [][NextTx]_vars


-----------------------------------------------------------------------------
(* MorphTo: resolving a polymorphic reference, singly and by eager loading *)

TypeNames == {"Post", "Video"}           \* the names a program registers
StoredTypes == {Null, "", "Post", "Ghost"}   \* what the type column can hold
StoredIds == {0, 1}                      \* what the id column can hold (0: null)

\* Relation.js requires ./Model while Model.js requires ./Relation: the module
\* loaded second sees the other's unfinished exports.  Which one it is depends
\* on what the program requires first.
Bindings == {"Model", "partial"}

\* !morphType || !morphId
morphMissing(type, id) == type \in {Null, ""} \/ id = 0

\* MorphTo.getResults: the outcomes it can have.
getResultsOutcomes(type, id, registry) ==
    IF morphMissing(type, id) THEN {"null"}
    ELSE IF type \notin registry THEN {"unresolvable"}
    ELSE {"entity", "null", "engineError"}   \* first(): a row, no row, or a raised error

\* loadRelation on a MorphTo relation: getRelatedClass gives the relation's
\* related, the Model binding, whatever the owner stores; the partial exports
\* fail the safety check, the class Model is queried by its table "models".
eagerMorphOutcomes(binding) ==
    IF binding = "partial" THEN {"invalidClass"}
    ELSE {"engineError", "list"}

InitMorph ==
    /\ morphRegistry \in SUBSET TypeNames
    /\ morphType \in StoredTypes
    /\ morphId \in StoredIds
    /\ morphBinding \in Bindings
    /\ morphVia = "none"
    /\ morphOut = "none"
    /\ AtRest("morph")

MorphGetResults ==
    /\ morphVia = "none"
    /\ morphVia' = "getResults"
    /\ morphOut' \in getResultsOutcomes(morphType, morphId, morphRegistry)
    /\ UNCHANGED <<morphRegistry, morphType, morphId, morphBinding>>
    /\ Frame("morph")

MorphEager ==
    /\ morphVia = "none"
    /\ morphVia' = "eager"
    /\ morphOut' \in eagerMorphOutcomes(morphBinding)
    /\ UNCHANGED <<morphRegistry, morphType, morphId, morphBinding>>
    /\ Frame("morph")

NextMorph == MorphGetResults \/ MorphEager

SpecMorph == InitMorph /\ [][NextMorph]_vars

-----------------------------------------------------------------------------
(* BelongsToMany: attach, detach and getResults with pivot columns *)

ParentKey == "1"                     \* the key of the relation's parent
OtherParent == "2"                   \* another parent sharing the pivot table
RelatedIds == {"1", "2"}             \* the keys of the related table's rows
PivotCols == {"c", "d"}              \* the pivot table's data columns
PivotVals == [col \in PivotCols |-> IF col = "c" THEN {"T1", "T2"} ELSE {"D"}]
Alias(col) == IF col = "c" THEN "pivot_c" ELSE "pivot_d"
RelatedCols == {"id", "name"}
EntityCols == RelatedCols \cup PivotCols \cup {Alias(col) : col \in PivotCols}
                  \cup {"parent_id", "related_id"}

\* The attributes argument of attach: absent columns undefined.
PivotInputs ==
    {[col \in PivotCols |-> IF col \in S THEN f[col] ELSE Undef] :
        S \in SUBSET PivotCols,
        f \in {g \in [PivotCols -> {"T1", "T2", "D"}] :
                  \A col \in PivotCols : g[col] \in PivotVals[col]}}

\* The row attach inserts: a column the caller left out takes the engine's null.
pivotData(parent, id, attrs) ==
    [parent_id |-> parent, related_id |-> id,
     data |-> [col \in PivotCols |-> IF attrs[col] = Undef THEN Null ELSE attrs[col]]]

\* The related table's row with key id.
relatedRow(id) == [k \in RelatedCols |-> IF k = "id" THEN id ELSE "n"]

\* One row of the joined select: related.* and each requested pivot column
\* under its alias.
selected(p, cols) ==
    [k \in EntityCols |->
        IF k \in RelatedCols THEN relatedRow(p.related_id)[k]
        ELSE IF \E col \in cols : k = Alias(col)
             THEN p.data[CHOOSE col \in cols : k = Alias(col)]
             ELSE Undef]

\* The map over the results: move each requested alias that is present into
\* pivot and delete it from the attributes.
withPivotKeepsAlias(attrs, cols) ==
    [attributes |-> attrs,
     pivot |-> [col \in PivotCols |->
                  IF col \in cols /\ attrs[Alias(col)] # Undef
                  THEN attrs[Alias(col)] ELSE Undef]]

withPivot(attrs, cols) ==
    [attributes |-> [k \in EntityCols |->
                       IF \E col \in cols : k = Alias(col) THEN Undef ELSE attrs[k]],
     pivot |-> [col \in PivotCols |->
                  IF col \in cols /\ attrs[Alias(col)] # Undef
                  THEN attrs[Alias(col)] ELSE Undef]]

\* The indices of the pivot rows of the parent, in order.
RECURSIVE joined(_, _)
joined(table, parent) ==
    IF table = <<>> THEN <<>>
    ELSE (IF table[1].parent_id = parent /\ table[1].related_id \in RelatedIds
          THEN <<table[1]>> ELSE <<>>) \o joined(Tail(table), parent)

\* BelongsToMany.getResults for the parent.
getResults(table, parent, cols) ==
    [i \in 1..Len(joined(table, parent)) |->
        withPivot(selected(joined(table, parent)[i], cols), cols)]

\* The pivot table holds what other parents attached before.
InitPivot ==
    /\ pivotTable \in {<<>>, <<pivotData(OtherParent, "1", [c |-> "T2", d |-> Undef])>>}
    /\ pivotColumns = {}
    /\ pivotResults = <<>>
    /\ pivotOp = "none"
    /\ attached = {}
    /\ AtRest("pivot")

Attach ==
    \E id \in RelatedIds, attrs \in PivotInputs :
        /\ Len(pivotTable) < MaxAttach
        /\ pivotTable' = Append(pivotTable, pivotData(ParentKey, id, attrs))
        /\ attached' = IF attrs["c"] = Undef THEN attached
                       ELSE attached \cup {<<id, attrs["c"]>>}
        /\ pivotOp' = "attach"
        /\ pivotColumns' = {}
        /\ pivotResults' = <<>>
        /\ Frame("pivot")

\* detach(id), or detach() of every related key.
Detach ==
    \E ids \in {{id} : id \in RelatedIds} \cup {RelatedIds} :
        /\ pivotTable' = SelectSeq(pivotTable,
               LAMBDA p : ~(p.parent_id = ParentKey /\ p.related_id \in ids))
        /\ attached' = {a \in attached : a[1] \notin ids}
        /\ pivotOp' = "detach"
        /\ pivotColumns' = {}
        /\ pivotResults' = <<>>
        /\ Frame("pivot")

\* parent.relation().withPivot(cols).getResults()
ReadPivot ==
    \E cols \in SUBSET PivotCols :
        /\ pivotColumns' = cols
        /\ pivotResults' = getResults(pivotTable, ParentKey, cols)
        /\ pivotOp' = "read"
        /\ UNCHANGED <<pivotTable, attached>>
        /\ Frame("pivot")

NextPivot == Attach \/ Detach \/ ReadPivot

SpecPivot == InitPivot /\ [][NextPivot]_vars

-----------------------------------------------------------------------------
(* Cast strategies: MoneyCast, EncryptedCast, JsonCast, ArrayCast, DateCast *)

Casts == {"money", "encrypted", "json", "array", "date"}

Strings == {"", "abc", "{}", "1"}
ObjectTexts == {"{}", "{\"a\":1}"}
ArrayTexts == {"[]", "[1]"}
IsoTexts == {"1970-01-01T00:00:00.000Z", "2024-05-06T07:08:09.000Z"}

\* !value
Not(v) ==
    \/ v.t = "null"
    \/ v.t = "number" /\ v.n = 0
    \/ v.t = "string" /\ v.s = ""

\* JSON.stringify of an object or array.
stringify(v) == Str(v.s)

\* JSON.parse of a text.
parse(x) ==
    IF x \in ObjectTexts THEN Obj(x)
    ELSE IF x \in ArrayTexts THEN Arr(x)
    ELSE IF x = "1" THEN Num(100)
    ELSE Thrown

\* Buffer.from(s).toString('base64')
Base64 == [x \in Strings |->
             CASE x = "" -> ""
               [] x = "abc" -> "YWJj"
               [] x = "{}" -> "e30="
               [] x = "1" -> "MQ=="]

\* Buffer.from(x, 'base64').toString('utf8')
unBase64(x) ==
    IF \E y \in Strings : Base64[y] = x
    THEN CHOOSE y \in Strings : Base64[y] = x
    ELSE "?"

\* C.set(value)
castSet(c, v) ==
    CASE c = "money" -> IF Not(v) THEN NullV ELSE Num(v.n * 100)
      [] c = "encrypted" -> IF Not(v) THEN NullV ELSE Str(Base64[v.s])
      [] c = "json" -> IF v.t = "null" THEN NullV
                       ELSE IF v.t = "string" THEN v ELSE stringify(v)
      [] c = "array" -> IF Not(v) THEN NullV
                        ELSE IF v.t = "array" THEN stringify(v) ELSE v
      [] c = "date" -> IF Not(v) THEN NullV ELSE Str(v.s)

\* C.get(value)
castGet(c, v) ==
    IF Not(v) THEN NullV
    ELSE CASE c = "money" -> Num(v.n \div 100)
           [] c = "encrypted" -> Str(unBase64(v.s))
           [] c = "json" -> IF v.t = "string" THEN parse(v.s) ELSE v
           [] c = "array" -> IF v.t = "array" THEN v ELSE parse(v.s)
           [] c = "date" -> DateOf(v.s)

\* The values each cast is exercised with.
CastInputs ==
    [c \in Casts |->
        {NullV} \cup
        CASE c = "money" -> {Num(n) : n \in 0..MaxCents}
          [] c = "encrypted" -> {Str(x) : x \in Strings}
          [] c = "json" -> {Obj(x) : x \in ObjectTexts} \cup {Arr(x) : x \in ArrayTexts}
                              \cup {Str(x) : x \in Strings}
          [] c = "array" -> {Arr(x) : x \in ArrayTexts} \cup {Str(x) : x \in Strings}
          [] c = "date" -> {DateOf(x) : x \in IsoTexts}]

InitCast ==
    /\ castName \in Casts
    /\ castInput \in CastInputs[castName]
    /\ castStored = NullV
    /\ castOutput = NullV
    /\ castStage = "input"
    /\ AtRest("cast")

CastSet ==
    /\ castStage = "input"
    /\ castStored' = castSet(castName, castInput)
    /\ castStage' = "stored"
    /\ UNCHANGED <<castName, castInput, castOutput>>
    /\ Frame("cast")

CastGet ==
    /\ castStage = "stored"
    /\ castOutput' = castGet(castName, castStored)
    /\ castStage' = "read"
    /\ UNCHANGED <<castName, castInput, castStored>>
    /\ Frame("cast")

NextCast == CastSet \/ CastGet

SpecCast == InitCast /\ [][NextCast]_vars

-----------------------------------------------------------------------------
(* Nested eager loading: get() with the path s1.s2...sk requested.  Each     *)
(* segment is a HasMany relation from the rows of the level above.           *)

PathIds == {1, 2}                      \* the keys used at every level
PathRows == [id : PathIds, fk : PathIds]
PathTables == {S \in SUBSET PathRows : \A r, s \in S : r.id = s.id => r = s}

\* The local key of the first model only.
frontierKeysOfFirst(ms) ==
    IF ms = {} THEN {} ELSE {CHOOSE v \in {m.id : m \in ms} : \A w \in {m.id : m \in ms} : v <= w}

\* The local key values loadRelation collects from the models of a get().
frontierKeys(ms) == Truthy({m.id : m \in ms})

\* get() has run the primary query; the builder carries one path of k segments.
InitPath ==
    /\ pathLen \in 1..MaxSegments
    /\ pathRoots \in SUBSET PathIds
    /\ pathTables \in [1..pathLen -> PathTables]
    /\ pathFrontier = {[id |-> i, fk |-> NoKey] : i \in pathRoots}
    /\ pathLevel = 0
    /\ pathQueries = <<>>
    /\ pathInFlight = 0
    /\ pathPc = "ask"
    /\ AtRest("path")

\* loadRelation: the supplemental query of the next segment is sent, with the
\* rest of the path handed on to it.
PathIssue ==
    /\ pathPc = "ask"
    /\ pathLevel < pathLen
    /\ frontierKeys(pathFrontier) # {}
    /\ pathQueries' = Append(pathQueries,
                             [segment |-> pathLevel + 1, vals |-> frontierKeys(pathFrontier)])
    /\ pathInFlight' = pathInFlight + 1
    /\ pathPc' = "wait"
    /\ UNCHANGED <<pathLen, pathRoots, pathTables, pathFrontier, pathLevel>>
    /\ Frame("path")

\* The query's get() receives its rows; they are the models of that get().
PathReceive ==
    /\ pathPc = "wait"
    /\ pathFrontier' =
          {r \in pathTables[pathLevel + 1] : r.fk \in pathQueries[Len(pathQueries)].vals}
    /\ pathLevel' = pathLevel + 1
    /\ pathInFlight' = pathInFlight - 1
    /\ pathPc' = "ask"
    /\ UNCHANGED <<pathLen, pathRoots, pathTables, pathQueries>>
    /\ Frame("path")

\* loadRelations has nothing to load: no segment is left, or no model.
PathReturn ==
    /\ pathPc = "ask"
    /\ pathLevel = pathLen \/ frontierKeys(pathFrontier) = {}
    /\ pathPc' = IF pathLevel = 0 THEN "done" ELSE "assign"
    /\ UNCHANGED <<pathLen, pathRoots, pathTables, pathFrontier, pathLevel,
                   pathQueries, pathInFlight>>
    /\ Frame("path")

\* loadRelation of the level above groups what its query returned and assigns
\* its models' relations.
PathAssign ==
    /\ pathPc = "assign"
    /\ pathLevel' = pathLevel - 1
    /\ pathPc' = IF pathLevel = 1 THEN "done" ELSE "assign"
    /\ UNCHANGED <<pathLen, pathRoots, pathTables, pathFrontier, pathQueries,
                   pathInFlight>>
    /\ Frame("path")

NextPath == PathIssue \/ PathReceive \/ PathReturn \/ PathAssign

SpecPath == InitPath /\ [][NextPath]_vars

-----------------------------------------------------------------------------
(* get / first / find on a builder whose eagerLoad names one relation *)

TermIds == {1, 2, 3}
TermCalls == {[op |-> "get", id |-> 0], [op |-> "first", id |-> 0]}
                 \cup {[op |-> "find", id |-> i] : i \in TermIds}

\* The rows the primary query of the call delivers.
primaryRows(call, table) ==
    CASE call.op = "get" -> table
      [] call.op = "first" ->
            IF table = {} THEN {} ELSE {CHOOSE i \in table : \A j \in table : i <= j}
      [] call.op = "find" -> table \cap {call.id}

\* loadRelations and the head of loadRelation: what they do with the request.
loadOutcome(ms, defined) ==
    IF ms = {} THEN "returned"              \* models.length === 0: return
    ELSE IF ~defined THEN "raised"          \* Relation '...' not found on model
    ELSE "returned"

InitTerm ==
    /\ termTable \in SUBSET TermIds
    /\ termCall \in TermCalls
    /\ termDefined \in BOOLEAN
    /\ termModels = {}
    /\ termOut = "pending"
    /\ termPc = "primary"
    /\ AtRest("term")

\* The primary query; first and find return null when it finds no row.
TermPrimary ==
    /\ termPc = "primary"
    /\ termModels' = primaryRows(termCall, termTable)
    /\ IF termCall.op # "get" /\ primaryRows(termCall, termTable) = {}
       THEN termPc' = "done" /\ termOut' = "returned"
       ELSE termPc' = "load" /\ termOut' = "pending"
    /\ UNCHANGED <<termTable, termCall, termDefined>>
    /\ Frame("term")

\* await this.loadRelations(models), then the models are returned.
TermLoad ==
    /\ termPc = "load"
    /\ termOut' = loadOutcome(termModels, termDefined)
    /\ termPc' = "done"
    /\ UNCHANGED <<termTable, termCall, termDefined, termModels>>
    /\ Frame("term")

NextTerm == TermPrimary \/ TermLoad

SpecTerm == InitTerm /\ [][NextTerm]_vars

-----------------------------------------------------------------------------
(* cursorPaginate: a caller walks the pages, handing each nextCursor back *)

CursorOf(v) == [given |-> TRUE, v |-> v]

\* if (cursor): String(value) of a number is never empty; of a text it is
\* empty for the empty string, the least text.
cursorTruthy(kind, c) == c.given /\ ~(kind = "text" /\ c.v = 0)

\* orderBy(column, direction): the values of S in order.
RECURSIVE Ordered(_, _)
Ordered(S, dir) ==
    IF S = {} THEN <<>>
    ELSE LET x == IF dir = "asc" THEN CHOOSE v \in S : \A w \in S : v <= w
                  ELSE CHOOSE v \in S : \A w \in S : v >= w
         IN <<x>> \o Ordered(S \ {x}, dir)

\* limit(n)
Limit(q, n) == IF Len(q) <= n THEN q ELSE SubSeq(q, 1, n)

\* The rows the query of cursorPaginate returns.
cursorQuery(table, kind, perPage, c, dir) ==
    Limit(Ordered({v \in table :
                      \/ ~cursorTruthy(kind, c)
                      \/ dir = "asc" /\ v > c.v
                      \/ dir = "desc" /\ v < c.v}, dir),
          perPage + 1)

\* What cursorPaginate returns.
cursorPaginate(table, kind, perPage, c, dir) ==
    LET results == cursorQuery(table, kind, perPage, c, dir)
        hasNextPage == Len(results) > perPage
        data == IF hasNextPage THEN SubSeq(results, 1, perPage) ELSE results
    IN [data |-> data,
        hasNextPage |-> hasNextPage,
        nextCursor |-> IF hasNextPage THEN CursorOf(data[Len(data)]) ELSE NoCursor]

InitCursor ==
    /\ curTable \in SUBSET (0..MaxValue)
    /\ curKind \in {"number", "text"}
    /\ curPerPage \in 1..MaxPerPage
    /\ curDirection \in {"asc", "desc"}
    /\ curCursor = NoCursor
    /\ curHasNext = TRUE
    /\ curPages = <<>>
    /\ AtRest("cursor")

\* The next call of the walk.
CursorPage ==
    /\ curHasNext
    /\ Len(curPages) < MaxPages
    /\ LET page == cursorPaginate(curTable, curKind, curPerPage, curCursor, curDirection)
       IN /\ curPages' = Append(curPages, page.data)
          /\ curHasNext' = page.hasNextPage
          /\ curCursor' = page.nextCursor
    /\ UNCHANGED <<curTable, curKind, curPerPage, curDirection>>
    /\ Frame("cursor")

NextCursor == CursorPage

SpecCursor == InitCursor /\ [][NextCursor]_vars

-----------------------------------------------------------------------------
(* Global scopes: addGlobalScope, removeGlobalScope, query, withoutGlobalScope *)

Types == {"User", "Post"}          \* two entity types, subclasses of Model
ScopeNames == {"active", "tenant"}

\* The scope function type t registered under name n, as a predicate it adds.
ScopeOf(t, n) == <<"scope", t, n>>
CallerPredicate == <<"caller", "", "">>

\* The Map a type's static globalScopes resolves to: no type declares its
\* own, so each finds the one Map of the base class.
scopesOf(t, scopes) == scopes

\* Map.set(n, s): a new key is appended, an old one keeps its place.
mapSet(scopes, n, t) ==
    IF \E i \in 1..Len(scopes) : scopes[i].name = n
    THEN [i \in 1..Len(scopes) |->
             IF scopes[i].name = n THEN [name |-> n, owner |-> t] ELSE scopes[i]]
    ELSE Append(scopes, [name |-> n, owner |-> t])

\* Map.delete(n)
mapDelete(scopes, n) == SelectSeq(scopes, LAMBDA e : e.name # n)

\* forEach(s => s(qb)): each scope adds its predicate, in the Map's order.
applyScopes(scopes) == [i \in 1..Len(scopes) |-> ScopeOf(scopes[i].owner, scopes[i].name)]

InitScope ==
    /\ globalScopes = <<>>
    /\ registered = {}
    /\ builder = NoBuilder
    /\ scopeOp = "none"
    /\ AtRest("scope")

AddGlobalScope ==
    \E t \in Types, n \in ScopeNames :
        /\ globalScopes' = mapSet(scopesOf(t, globalScopes), n, t)
        /\ registered' = registered \cup {<<t, n>>}
        /\ scopeOp' = "add"
        /\ UNCHANGED builder
        /\ Frame("scope")

RemoveGlobalScope ==
    \E t \in Types, n \in ScopeNames :
        /\ globalScopes' = mapDelete(scopesOf(t, globalScopes), n)
        /\ registered' = registered \ {<<t, n>>}
        /\ scopeOp' = "remove"
        /\ UNCHANGED builder
        /\ Frame("scope")

\* T.query(): a fresh builder with the global scopes applied.
Query ==
    \E t \in Types :
        /\ builder' = [type |-> t, without |-> "none",
                       wheres |-> applyScopes(scopesOf(t, globalScopes))]
        /\ scopeOp' = "query"
        /\ UNCHANGED <<globalScopes, registered>>
        /\ Frame("scope")

\* T.withoutGlobalScope(n)
WithoutGlobalScope ==
    \E t \in Types, n \in ScopeNames :
        /\ builder' = [type |-> t, without |-> n,
                       wheres |-> applyScopes(mapDelete(scopesOf(t, globalScopes), n))]
        /\ scopeOp' = "without"
        /\ UNCHANGED <<globalScopes, registered>>
        /\ Frame("scope")

\* The caller adds a predicate of its own to the builder it was given.
Where ==
    /\ builder # NoBuilder
    /\ CallerPredicate \notin {builder.wheres[i] : i \in 1..Len(builder.wheres)}
    /\ builder' = [builder EXCEPT !.wheres = Append(@, CallerPredicate)]
    /\ scopeOp' = "where"
    /\ UNCHANGED <<globalScopes, registered>>
    /\ Frame("scope")

NextScope == AddGlobalScope \/ RemoveGlobalScope \/ Query \/ WithoutGlobalScope \/ Where

SpecScope == InitScope /\ [][NextScope]_vars

-----------------------------------------------------------------------------
(* setAttribute / getAttribute of one key, by what casts[key] holds *)

KeyCasts == {"none", "json", "array", "date", "strategy", "mutator"}

\* The set and get mutators of the key: setEmailAttribute lower-cases, the
\* accessor capitalizes.
mutatorSet(v) == IF v = Str("ABC") THEN Str("abc") ELSE v
mutatorGet(v) == IF v = Str("abc") THEN Str("Abc") ELSE v

\* A Date formatted as YYYY-MM-DD HH:mm:ss.
SqlText(x) ==
    IF x = "1970-01-01T00:00:00.000Z" THEN "1970-01-01 00:00:00"
    ELSE "2024-05-06 07:08:09"

\* try { return JSON.parse(val) } catch { return val }
parseOrRaw(v) == IF v.t = "string" /\ parse(v.s) # Thrown THEN parse(v.s) ELSE v

\* Model.setAttribute: the value stored for the key.
storedValue(cast, v) ==
    IF cast \in {"json", "array"} THEN (IF v.t = "string" THEN v ELSE stringify(v))
    ELSE IF cast = "date" /\ v.t = "date" THEN Str(SqlText(v.s))
    ELSE v

\* Model.getAttribute: the value read for the key.
readValue(cast, v) ==
    IF cast \in {"json", "array"} THEN parseOrRaw(v)
    ELSE v          \* a date text is formatted again in the configured timezone

\* The values a key of each kind is written with.
KeyInputs ==
    [c \in KeyCasts |->
        CASE c = "none" -> {Str(x) : x \in Strings} \cup {NullV}
          [] c \in {"json", "array"} ->
                {Obj(x) : x \in ObjectTexts} \cup {Arr(x) : x \in ArrayTexts}
                    \cup {Str(x) : x \in Strings}
          [] c = "date" -> {DateOf(x) : x \in IsoTexts} \cup {NullV}
          [] c = "strategy" -> {Num(n) : n \in 0..MaxCents}
          [] c = "mutator" -> {Str("ABC"), Str("abc"), Str("")}]

InitKey ==
    /\ keyCast \in KeyCasts
    /\ keyInput \in KeyInputs[keyCast]
    /\ keyStored = NullV
    /\ keyRead = NullV
    /\ keyStage = "input"
    /\ AtRest("key")

WriteKey ==
    /\ keyStage = "input"
    /\ keyStored' = storedValue(keyCast, keyInput)
    /\ keyStage' = "stored"
    /\ UNCHANGED <<keyCast, keyInput, keyRead>>
    /\ Frame("key")

ReadKey ==
    /\ keyStage = "stored"
    /\ keyRead' = readValue(keyCast, keyStored)
    /\ keyStage' = "read"
    /\ UNCHANGED <<keyCast, keyInput, keyStored>>
    /\ Frame("key")

NextKey == WriteKey \/ ReadKey

SpecKey == InitKey /\ [][NextKey]_vars

-----------------------------------------------------------------------------
(* Eager loading of a BelongsToMany relation declared withPivot('c'):      *)
(* QueryBuilder.get with that relation requested                           *)

LinkedIds == {1, 10}           \* keys of related rows; 1 is also an owner key

\* A pivot row: the owner-side key, the related-side key and the column c.
LinkRows == [owner : OwnerIds, related : LinkedIds, c : {"T"}]

\* What the primary query can deliver: owner keys, distinct, in any order.
LinkOwnerLists ==
    {ms \in UNION {[1..n -> OwnerIds] : n \in 0..MaxOwner} :
        \A i, j \in 1..Len(ms) : ms[i] = ms[j] => i = j}

\* relationInstance.foreignKey and .localKey of a BelongsToMany: the super
\* call of its constructor hands relatedKey and parentKey to Relation, so the
\* supplemental query is whereIn(<related key>, <owners' keys>) on the related
\* table; the pivot table is not named.
linkQuery(ms) == [col |-> "id", vals |-> Truthy({ms[i] : i \in 1..Len(ms)})]

\* The models the supplemental query's get() builds: rows of the related table
\* alone, so no pivot alias is selected and no pivot attribute is set.
linkSelect(q, table) == {[id |-> r, pivot |-> Undef] : r \in table \cap q.vals}

\* model.relations[relation] after the assignment loop: the group of the
\* owner's own key among the related models grouped by their primary key.
linkAssigned(m, rows) == [loaded |-> TRUE, rows |-> {r \in rows : r.id = m}]

\* get() has run the primary query and holds its models.
InitLink ==
    /\ linkModels \in LinkOwnerLists
    /\ linkRelated \in SUBSET LinkedIds
    /\ linkPivot \in SUBSET LinkRows
    /\ linkRelations = [i \in 1..Len(linkModels) |-> NotLoaded]
    /\ linkQueries = <<>>
    /\ linkModelsFound = {}
    /\ linkPc = "start"
    /\ AtRest("link")

\* loadRelations / loadRelation up to the await of the supplemental query.
LinkQuery ==
    /\ linkPc = "start"
    /\ IF Len(linkModels) = 0 \/ linkQuery(linkModels).vals = {}
       THEN /\ linkPc' = "done"
            /\ UNCHANGED <<linkQueries, linkModelsFound>>
       ELSE /\ linkQueries' = Append(linkQueries, linkQuery(linkModels))
            /\ linkModelsFound' = linkSelect(linkQuery(linkModels), linkRelated)
            /\ linkPc' = "queried"
    /\ UNCHANGED <<linkModels, linkRelated, linkPivot, linkRelations>>
    /\ Frame("link")

\* loadRelation after the await: group the related models, assign each owner.
LinkAssign ==
    /\ linkPc = "queried"
    /\ linkRelations' = [i \in 1..Len(linkModels) |->
                            linkAssigned(linkModels[i], linkModelsFound)]
    /\ linkPc' = "done"
    /\ UNCHANGED <<linkModels, linkRelated, linkPivot, linkQueries, linkModelsFound>>
    /\ Frame("link")

NextLink == LinkQuery \/ LinkAssign

SpecLink == InitLink /\ [][NextLink]_vars

-----------------------------------------------------------------------------
(* Lifecycle handlers: T.saving(fn), T.deleting(fn), T.observe(o) and the  *)
(* fireEvent calls of save() and delete(), for two subclasses of Model     *)

EventNames == {"saving", "deleting"}

\* A handler: the type it was registered on and what it returns.
Handlers == [owner : Types, ret : HandlerRets]

\* The object a type's static events resolves to: no type declares its own,
\* so each finds the one object of the base class.
eventsOf(t, evs) == evs

\* _addEventHandler: this.events[evt] = this.events[evt] || []; push(fn)
addEventHandler(evs, e, h) == [evs EXCEPT ![e] = Append(@, h)]

\* observe(o): one _addEventHandler per event o has a function for.
RECURSIVE observe(_, _, _)
observe(evs, es, h) ==
    IF es = {} THEN evs
    ELSE LET e == CHOOSE x \in es : TRUE
         IN observe(addEventHandler(evs, e, h), es \ {e}, h)

\* The handlers fireEvent invokes: those of the event up to the first that
\* returns false.
invoked(hs) ==
    LET stops == {i \in 1..Len(hs) : hs[i].ret = "false"}
    IN IF stops = {} THEN hs ELSE SubSeq(hs, 1, Min(stops))

InitEvent ==
    /\ events = [e \in EventNames |-> <<>>]
    /\ evFired = <<>>
    /\ evOp = [kind |-> "none", type |-> "none", event |-> "none"]
    /\ AtRest("event")

\* T.saving(fn) / T.deleting(fn)
RegisterHandler ==
    \E t \in Types, e \in EventNames, r \in HandlerRets :
        /\ Len(events[e]) < MaxHandlers
        /\ events' = addEventHandler(eventsOf(t, events), e, [owner |-> t, ret |-> r])
        /\ evFired' = <<>>
        /\ evOp' = [kind |-> "register", type |-> t, event |-> e]
        /\ Frame("event")

\* T.observe(o) with an observer that handles both events.
Observe ==
    \E t \in Types, r \in HandlerRets :
        /\ \A e \in EventNames : Len(events[e]) < MaxHandlers
        /\ events' = observe(eventsOf(t, events), EventNames, [owner |-> t, ret |-> r])
        /\ evFired' = <<>>
        /\ evOp' = [kind |-> "observe", type |-> t, event |-> "all"]
        /\ Frame("event")

\* save() (saving) or delete() (deleting) of an entity of type t reaches its
\* this.constructor.fireEvent(evt, this).
FireEvent ==
    \E t \in Types, e \in EventNames :
        /\ evFired' = invoked(eventsOf(t, events)[e])
        /\ evOp' = [kind |-> "fire", type |-> t, event |-> e]
        /\ UNCHANGED events
        /\ Frame("event")

NextEvent == RegisterHandler \/ Observe \/ FireEvent

SpecEvent == InitEvent /\ [][NextEvent]_vars

-----------------------------------------------------------------------------
(* Trashed-row visibility of one builder: withTrashed / onlyTrashed, then   *)
(* get, paginate, cursorPaginate, cursor / lazy.  Rows are named by their   *)
(* keys 1..Len(pgTable); a page number or a "to" that is null is 0.         *)

\* QueryBuilder.get(): the keys of the rows the query delivers, after the
\* soft-delete filter the builder's flags select.
getRows(soft, mode, rows) ==
    LET shown(i) == IF soft /\ mode.only THEN rows[i]
                    ELSE IF soft /\ ~mode.include THEN ~rows[i]
                    ELSE TRUE
    IN  SelectSeq([i \in 1..Len(rows) |-> i], shown)

\* offset(o).limit(l) on the rows a query delivers.
slice(keys, o, l) ==
    [i \in 1..(IF Len(keys) <= o THEN 0
               ELSE IF Len(keys) - o < l THEN Len(keys) - o ELSE l) |-> keys[o + i]]

\* QueryBuilder.clone(): the query, eagerLoad and eagerLoadConstraints are
\* copied; _onlyTrashed and _includeTrashed are left undefined on the copy.
clone(mode) == DefaultMode

\* QueryBuilder.count(): this.query.count(column), without the filter get()
\* adds.
count(rows) == Len(rows)

\* Math.ceil(total / perPage) || 1
lastPageOf(total, perPage) ==
    IF total = 0 THEN 1 ELSE (total + perPage - 1) \div perPage

paginate(soft, mode, rows, page, perPage) ==
    LET total == count(rows)
        results == slice(getRows(soft, clone(mode), rows), (page - 1) * perPage, perPage)
        lastPage == lastPageOf(total, perPage)
        reach == (page - 1) * perPage + Len(results)
    IN  [data |-> results, total |-> total, lastPage |-> lastPage,
         to |-> IF Len(results) > 0 THEN (IF reach < total THEN reach ELSE total) ELSE 0,
         nextPage |-> IF page < lastPage THEN page + 1 ELSE 0]

\* The first call of cursorPaginate (no cursor): perPage + 1 rows are asked
\* for and the extra one is popped.
firstCursorPage(soft, mode, rows, perPage) ==
    LET results == slice(getRows(soft, clone(mode), rows), 0, perPage + 1)
    IN  IF Len(results) > perPage THEN SubSeq(results, 1, perPage) ELSE results

\* cursor(chunkSize), which lazy() delegates to: chunks fetched on clones
\* until one comes back short.
RECURSIVE cursorRows(_, _, _, _, _)
cursorRows(soft, mode, rows, chunkSize, offset) ==
    LET results == slice(getRows(soft, clone(mode), rows), offset, chunkSize)
    IN  results \o (IF Len(results) = chunkSize
                    THEN cursorRows(soft, mode, rows, chunkSize, offset + chunkSize)
                    ELSE <<>>)

InitPage ==
    /\ pgTable \in UNION {[1..n -> BOOLEAN] : n \in 0..MaxRows}
    /\ pgSoft \in BOOLEAN
    /\ pgMode = DefaultMode
    /\ pgOp = NoCall
    /\ pgResult = NoResult
    /\ AtRest("page")

WithTrashed ==
    /\ pgMode' = [pgMode EXCEPT !.include = TRUE]
    /\ pgOp' = [NoCall EXCEPT !.kind = "withTrashed"]
    /\ pgResult' = NoResult
    /\ UNCHANGED <<pgTable, pgSoft>>
    /\ Frame("page")

OnlyTrashed ==
    /\ pgMode' = [pgMode EXCEPT !.only = TRUE]
    /\ pgOp' = [NoCall EXCEPT !.kind = "onlyTrashed"]
    /\ pgResult' = NoResult
    /\ UNCHANGED <<pgTable, pgSoft>>
    /\ Frame("page")

Get ==
    /\ pgResult' = [NoResult EXCEPT !.data = getRows(pgSoft, pgMode, pgTable)]
    /\ pgOp' = [kind |-> "get", offset |-> 0, limit |-> MaxRows]
    /\ UNCHANGED <<pgTable, pgSoft, pgMode>>
    /\ Frame("page")

Paginate ==
    \E page \in 1..MaxPages, perPage \in 1..MaxPerPage :
        /\ pgResult' = paginate(pgSoft, pgMode, pgTable, page, perPage)
        /\ pgOp' = [kind |-> "paginate", offset |-> (page - 1) * perPage, limit |-> perPage]
        /\ UNCHANGED <<pgTable, pgSoft, pgMode>>
        /\ Frame("page")

CursorPaginate ==
    \E perPage \in 1..MaxPerPage :
        /\ pgResult' = [NoResult EXCEPT
                           !.data = firstCursorPage(pgSoft, pgMode, pgTable, perPage)]
        /\ pgOp' = [kind |-> "cursorPaginate", offset |-> 0, limit |-> perPage]
        /\ UNCHANGED <<pgTable, pgSoft, pgMode>>
        /\ Frame("page")

\* for await (const row of builder.cursor(chunkSize)) / builder.lazy(chunkSize)
Cursor ==
    \E chunkSize \in 1..MaxPerPage :
        /\ pgResult' = [NoResult EXCEPT
                           !.data = cursorRows(pgSoft, pgMode, pgTable, chunkSize, 0)]
        /\ pgOp' = [kind |-> "cursor", offset |-> 0, limit |-> MaxRows]
        /\ UNCHANGED <<pgTable, pgSoft, pgMode>>
        /\ Frame("page")

NextPage == WithTrashed \/ OnlyTrashed \/ Get \/ Paginate \/ CursorPaginate \/ Cursor

SpecPage == InitPage /\ [][NextPage]_vars

-----------------------------------------------------------------------------
(* firstOrCreate(attrs): (await query().where(attrs).first()) || create(attrs), *)
(* called concurrently with the same attrs.  A call is suspended at each of     *)
(* its awaits: the first() query, the creating and saving hooks of save(), and  *)
(* the insert.                                                                   *)

Callers == 1..MaxCallers

\* query().where(attrs).first(): the matching row with the least key, or none.
firstMatch(rows) == IF rows = {} THEN 0 ELSE Min(rows)

\* The key the engine gives an inserted row.
insertedKey(rows) == Cardinality(rows) + 1

InitFoc ==
    /\ focRows \in {{}, {1}}
    /\ focUnique \in BOOLEAN
    /\ focInserted = {}
    /\ focPc = [p \in Callers |-> "start"]
    /\ focRet = [p \in Callers |-> 0]
    /\ AtRest("foc")

\* The engine answers the first() query of call p; a row found is returned.
FocFirst(p) ==
    /\ focPc[p] = "start"
    /\ IF firstMatch(focRows) # 0
       THEN /\ focRet' = [focRet EXCEPT ![p] = firstMatch(focRows)]
            /\ focPc' = [focPc EXCEPT ![p] = "done"]
       ELSE /\ focPc' = [focPc EXCEPT ![p] = "create"]
            /\ UNCHANGED focRet
    /\ UNCHANGED <<focRows, focUnique, focInserted>>
    /\ Frame("foc")

\* create -> make -> save: the awaits of fireEvent('creating') and
\* fireEvent('saving') (no handler vetoes).
FocHook(p) ==
    /\ focPc[p] \in {"create", "creating"}
    /\ focPc' = [focPc EXCEPT ![p] = IF focPc[p] = "create" THEN "creating" ELSE "saving"]
    /\ UNCHANGED <<focRows, focUnique, focInserted, focRet>>
    /\ Frame("foc")

\* The engine executes the insert of call p: with a unique index and a
\* matching row present it raises and the call rejects; otherwise the row is
\* stored and the call returns the new entity.
FocInsert(p) ==
    /\ focPc[p] = "saving"
    /\ IF focUnique /\ focRows # {}
       THEN /\ focPc' = [focPc EXCEPT ![p] = "raised"]
            /\ UNCHANGED <<focRows, focInserted, focRet>>
       ELSE /\ focRows' = focRows \cup {insertedKey(focRows)}
            /\ focInserted' = focInserted \cup {insertedKey(focRows)}
            /\ focRet' = [focRet EXCEPT ![p] = insertedKey(focRows)]
            /\ focPc' = [focPc EXCEPT ![p] = "created"]
    /\ UNCHANGED focUnique
    /\ Frame("foc")

\* save() after the insert: the awaits of fireEvent('created') and
\* fireEvent('saved'), after which create() returns the entity.
FocAfter(p) ==
    /\ focPc[p] \in {"created", "saved"}
    /\ focPc' = [focPc EXCEPT ![p] = IF focPc[p] = "created" THEN "saved" ELSE "done"]
    /\ UNCHANGED <<focRows, focUnique, focInserted, focRet>>
    /\ Frame("foc")

NextFoc ==
    \E p \in Callers : FocFirst(p) \/ FocHook(p) \/ FocInsert(p) \/ FocAfter(p)

SpecFoc == InitFoc /\ [][NextFoc]_vars

-----------------------------------------------------------------------------
(* Properties of the entity state machine *)

Range(q) == {q[i] : i \in 1..Len(q)}

\* The keys whose attribute differs from the snapshot.
Changed == {k \in Keys : attributes[k] # original[k]}

SaveRets(v) == {r \in rets : r[1] \in {"creating", "updating", "saving"} /\ r[2] = v}

\* C3 (as claimed): if a pre-action save handler returns a falsy value, save()
\* returns false, issues no insert or update, and exists and original keep their
\* values.
C3_FalsyAborts ==
    [][(lastOp' = "save" /\ SaveRets("false")' \cup SaveRets("undefined")' # {})
          => (ret' = "false" /\ io' = <<>> /\ exists' = exists /\ original' = original)]_vars

\* C3 (amended): if a pre-action save handler returns exactly false, save()
\* returns false, issues no insert or update, and exists keeps its value;
\* original keeps its value unless constructor attributes were still pending,
\* which save() applies and snapshots before the hooks run.
C3_FalseAborts ==
    [][(lastOp' = "save" /\ SaveRets("false")' # {})
          => /\ ret' = "false"
             /\ io' = <<>>
             /\ exists' = exists
             /\ deferred = NoAttrs => original' = original
             /\ deferred # NoAttrs => original' = attributes']_vars

\* A save() vetoed by a saving handler behind a handler that returned undefined.
C3_Witness ==
    /\ lastOp = "save" /\ ret = "false"
    /\ <<"saving", "false">> \in rets /\ <<"saving", "undefined">> \in rets

\* C4: if a deleting handler aborts, delete() returns false, issues no delete or
\* update, does not fire deleted, and leaves exists and deleted_at unchanged.
C4_DeletingAborts ==
    [][(lastOp' = "delete" /\ <<"deleting", "false">> \in rets')
          => /\ ret' = "false"
             /\ io' = <<>>
             /\ "deleted" \notin Range(trace')
             /\ exists' = exists
             /\ attributes'["deleted_at"] = attributes["deleted_at"]]_vars

\* C5: eager-loading a HasMany relation on owners P1..Pn issues exactly one
\* supplemental query, and afterwards each owner's relation holds exactly the
\* related rows whose foreign key equals the owner's local key.
C5_EagerHasMany ==
    (eagerPc = "done" /\ relKind = "HasMany" /\ models # <<>>)
        => /\ Len(queries) = 1
           /\ \A i \in 1..Len(models) :
                 /\ relations[i].loaded
                 /\ relations[i].rows = {r \in related : r.fk = models[i].id}

\* The non-null values of the key that links the owners to the related rows.
LinkingValues == IF relKind = "BelongsTo" THEN foreignValues(models)
                 ELSE localValues(models)

\* C26: when no owner of the batch has a non-null linking key, eager loading
\* issues no supplemental query and records the relation as loaded and empty
\* (null for HasOne / BelongsTo, an empty list for HasMany) on every owner.
C26_NoKeysNoQuery ==
    (eagerPc = "done" /\ models # <<>> /\ LinkingValues = {})
        => /\ queries = <<>>
           /\ \A i \in 1..Len(models) : relations[i] = [loaded |-> TRUE, rows |-> {}]

\* The stored row of the entity, as a query in the given mode delivers it.
Delivered(onlyTrashed, includeTrashed) ==
    {r \in get(cls, db, onlyTrashed, includeTrashed) : r["id"] = attributes["id"]}

\* C6: for a soft-delete type, after delete() the row is delivered by a
\* withTrashed() query and not by a default get(); after restore() it is
\* delivered by a default get() again.
C6_SoftDeleteVisibility ==
    cls.softDeletes =>
        /\ (lastOp = "delete" /\ ret = "true")
              => (Delivered(FALSE, TRUE) # {} /\ Delivered(FALSE, FALSE) = {})
        /\ (lastOp = "restore" /\ ret = "true") => Delivered(FALSE, FALSE) # {}

\* C7: while a transaction block is executing its callback, other blocks
\* starting or finishing meanwhile, the slot holds that block's transaction;
\* when the block leaves its callback the slot is empty.
C7_SlotHoldsRunningBlock ==
    /\ [](\A b \in Blocks : txPc[b] = "callback" => currentTransaction = Trx(b))
    /\ [][\A b \in Blocks : (txPc[b] = "callback" /\ txPc'[b] # "callback")
                                => currentTransaction' = NoTrx]_vars

\* The mass-assignment policy in the claim's words.
Permitted(c, k) ==
    \/ c.fillable # {} /\ k \in c.fillable
    \/ c.fillable = {} /\ "*" \notin c.guarded /\ k \notin c.guarded

\* C8: fill(attrs) writes key k iff attrs gives k and the mass-assignment policy
\* permits k, and leaves every other attribute unchanged.
C8_FillWritesPermitted ==
    [][lastOp' = "fill"
          => \A k \in Keys :
                attributes'[k] = IF arg'[k] # Undef /\ Permitted(cls, k)
                                 THEN arg'[k]
                                 ELSE attributes[k]]_vars

\* Allow-list {name}, input {name: A, role: admin}: name is A, role is not admin.
C8_Witness ==
    /\ lastOp = "fill" /\ cls.fillable = {"name"}
    /\ arg["name"] = "A" /\ arg["role"] = "admin"
    /\ attributes["name"] = "A" /\ attributes["role"] # "admin"

\* C9: a save() straight after a save() that returned true sends nothing to the
\* query engine, fires no lifecycle hook and returns true.
C9_SecondSaveIsNoOp ==
    [][(lastOp = "save" /\ ret = "true" /\ lastOp' = "save")
          => (io' = <<>> /\ trace' = <<>> /\ ret' = "true")]_vars

\* The entity was inserted by the first save() and the second did nothing.
C9_Witness ==
    /\ lastOp = "save" /\ ret = "true" /\ trace = <<>> /\ io = <<>>
    /\ wasRecentlyCreated /\ exists /\ clock = 3

\* C10: an entity never persisted is not dirty, whatever was filled; a key
\* enters the dirty set only by a write made while exists is true; an entity
\* read from a row starts with an empty dirty set.
C10_DirtyOnlyWhenExists ==
    /\ [](~persisted => dirty = {})
    /\ [](lastOp = "find" => dirty = {})
    /\ [][dirty' \ dirty # {} => exists]_vars

\* A never-persisted entity right after a fill that changed it.
C10_Witness ==
    /\ ~persisted /\ lastOp = "fill" /\ arg # NoAttrs
    /\ attributes # original /\ dirty = {}

\* C20: an entity produced by new T(attrs), T.make(attrs) or T.create(attrs)
\* holds, and on create inserts, only the keys of attrs that the type's
\* mass-assignment policy permits.
C20_ConstructionHonoursPolicy ==
    [][(lastOp \in {"new", "make"} /\ lastOp' \in {"make", "save"})
          => /\ \A k \in UserKeys : attributes'[k] # Undef => Permitted(cls, k)
             /\ \A i \in 1..Len(io') :
                   \A k \in UserKeys : k \in io'[i].keys => Permitted(cls, k)]_vars

\* C22: for an entity of a soft-delete type, after any sequence of create,
\* load, delete and restore, trashed() is true iff deleted_at holds a deletion
\* timestamp.
C22_TrashedIffSoftDeleted ==
    (cls.softDeletes /\ exists /\ deferred = NoAttrs)
        => (trashed(cls, Self) <=> ~Falsy(getAttribute(Self, "deleted_at")))

InsertOrder == <<"creating", "saving", "insert", "exists", "created", "saved", "sync">>
UpdateOrder == <<"updating", "saving", "update", "updated", "saved", "sync">>

\* A save() that returned true after firing its pre-action hooks.
SavedOk == lastOp = "save" /\ ret = "true" /\ trace # <<>>

C24_UpdatePayload ==
    [][(lastOp' = "save" /\ io' # <<>> /\ io'[1].op = "update")
          => /\ io'[1].keys = (initialize(Self).dirty
                                 \cup (IF cls.timestamps THEN {"updated_at"} ELSE {}))
                              \ {"created_at"}
             /\ \A k \in io'[1].keys : io'[1].data[k] = attributes'[k]]_vars

\* An update was sent while created_at was dirty (the engine raised, so the
\* dirty set is still to be seen).
C24_Witness ==
    /\ lastOp = "save" /\ ret = "throw"
    /\ io # <<>> /\ io[1].op = "update"
    /\ "created_at" \in dirty
    /\ "created_at" \notin io[1].keys
    /\ \E k \in Keys : attributes[k] # Undef /\ k \notin dirty

\* The step is a save() during which the query engine raised.
SaveRaised == lastOp' = "save" /\ ret' = "throw"

\* save() sent one statement and fired no post-action hook.
NoRetryNoPostHook ==
    /\ Len(io') = 1
    /\ \A i \in 1..Len(trace') : trace'[i] \notin {"created", "updated", "saved", "sync"}
    /\ db' = db

\* C25 as stated: if the engine raises during the insert or update of save(),
\* save() raises without a retry, fires no post-action hook and leaves exists
\* and original exactly as they were before the call.
C25_FailureLeavesOriginalAsStated ==
    [][SaveRaised => /\ NoRetryNoPostHook
                     /\ exists' = exists
                     /\ original' = original]_vars

\* C25, amended: as stated, but original is what it was before the call only
\* once the constructor's attributes have been applied: save() applies pending
\* constructor attributes and snapshots them into original before its hooks.
C25_FailureLeavesOriginal ==
    [][SaveRaised => /\ NoRetryNoPostHook
                     /\ exists' = exists
                     /\ original' = initialize(Self).original]_vars

\* The engine raised during a save() and the stamped attributes are not in
\* original.
C25_Witness ==
    /\ lastOp = "save" /\ ret = "throw"
    /\ io # <<>>
    /\ original # attributes

-----------------------------------------------------------------------------
(* Properties of MorphTo *)

\* C11: resolving a MorphTo relation, by getResults() or by eager loading, for
\* an owner whose stored type name is non-null and not registered and whose
\* stored id is non-null raises the unresolvable-reference error.
C11_UnregisteredTypeRaises ==
    (morphVia # "none" /\ morphType # Null /\ morphType \notin morphRegistry /\ morphId # 0)
        => morphOut = "unresolvable"

-----------------------------------------------------------------------------
(* Properties of BelongsToMany *)

-----------------------------------------------------------------------------
(* Properties of the cast strategies *)

\* The domain of each cast: amounts, texts, structures, arrays, dates.
CastDomain ==
    [c \in Casts |->
        CASE c = "money" -> {Num(n) : n \in 0..MaxCents}
          [] c = "encrypted" -> {Str(x) : x \in Strings}
          [] c = "json" -> {Obj(x) : x \in ObjectTexts} \cup {Arr(x) : x \in ArrayTexts}
          [] c = "array" -> {Arr(x) : x \in ArrayTexts}
          [] c = "date" -> {DateOf(x) : x \in IsoTexts}]

\* C13: for each built-in cast C and every value v of its domain, the zero
\* amount, the empty string and the empty array and object included,
\* C.get(C.set(v)) equals v.
C13_CastRoundTrip ==
    (castStage = "read" /\ castInput \in CastDomain[castName])
        => castOutput = castInput

-----------------------------------------------------------------------------
(* Properties of nested eager loading *)

\* The rows segment j reaches from the roots.
RECURSIVE Reached(_)
Reached(j) ==
    IF j = 0 THEN {[id |-> i, fk |-> NoKey] : i \in pathRoots}
    ELSE {r \in pathTables[j] : r.fk \in {m.id : m \in Reached(j - 1)}}

\* C14: the supplemental queries of a path of k segments are issued one at a
\* time, in segment order, one query per segment over the keys of the whole
\* frontier: at most k queries, however many roots there are.
C14_OneQueryPerSegment ==
    /\ Len(pathQueries) <= pathLen
    /\ pathInFlight <= 1
    /\ \A i \in 1..Len(pathQueries) :
          /\ pathQueries[i].segment = i
          /\ pathQueries[i].vals = {m.id : m \in Reached(i - 1)}

\* Two roots, two segments, two queries, the first over both roots.
C14_Witness ==
    /\ pathPc = "done" /\ pathLen = 2 /\ pathRoots = {1, 2}
    /\ Len(pathQueries) = 2
    /\ pathQueries[1].vals = {1, 2}
    /\ Cardinality(pathQueries[2].vals) = 2

-----------------------------------------------------------------------------
(* Properties of terminal calls *)

\* C15: get(), first() or find() on a builder whose eager-load request names a
\* relation the owner type does not define always raises, whatever the primary
\* result set is; it never completes normally.
C15_MissingRelationRaises ==
    (termPc = "done" /\ ~termDefined) => termOut = "raised"

-----------------------------------------------------------------------------
(* Properties of the transaction retry loop *)

\* C16: transaction(callback, N) invokes the callback at most N times, invokes
\* it again only after an attempt failed with a serialization or deadlock
\* failure, ends at the first successful attempt, and lets a failure of any
\* other kind propagate without a retry.
C16_RetryOnlyOnDeadlock ==
    /\ [](\A b \in Blocks : txCalls[b] <= txAttempts[b])
    /\ [][\A b \in Blocks :
            /\ txCalls'[b] > txCalls[b] /\ txCalls[b] > 0 => txError[b] = "deadlock"
            /\ txPc[b] = "returned" => txCalls'[b] = txCalls[b]
            /\ (txPc[b] = "rollingBack" /\ txError[b] = "other") => txPc'[b] \in {"rollingBack", "thrown"}]_vars

-----------------------------------------------------------------------------
(* Properties of cursor pagination *)

\* The rows of all pages returned so far, in order.
RECURSIVE Flat(_)
Flat(pages) == IF pages = <<>> THEN <<>> ELSE pages[1] \o Flat(Tail(pages))

\* C17: walking the pages from no cursor until hasNextPage is false ends and
\* returns every row exactly once in cursor-column order, at most p rows a
\* page; hasNextPage is true iff a row lies beyond the page, and then
\* nextCursor is the cursor-column value of the page's last row.
C17_CursorWalk ==
    Len(curPages) > 0 =>
        LET rows == Flat(curPages)
            all == Ordered(curTable, curDirection)
        IN /\ \A i \in 1..Len(curPages) : Len(curPages[i]) <= curPerPage
           /\ Len(rows) <= Len(all)
           /\ rows = SubSeq(all, 1, Len(rows))
           /\ curHasNext <=> Len(rows) < Len(all)
           /\ curHasNext => curCursor = CursorOf(rows[Len(rows)])

-----------------------------------------------------------------------------
(* Properties of global scopes *)

\* The scope predicates of the builder.
AppliedScopes == {builder.wheres[i] : i \in 1..Len(builder.wheres)} \ {CallerPredicate}

\* C18: a builder from T.query() has every global scope registered for T, and
\* no scope registered only for another type, applied before any caller
\* predicate; T.withoutGlobalScope(n) applies all of T's scopes but n.
C18_ScopesOfTheType ==
    /\ scopeOp = "query" =>
          AppliedScopes = {ScopeOf(builder.type, n) : n \in {m \in ScopeNames : <<builder.type, m>> \in registered}}
    /\ scopeOp = "without" =>
          AppliedScopes = {ScopeOf(builder.type, n) :
                              n \in {m \in ScopeNames : <<builder.type, m>> \in registered} \ {builder.without}}
    /\ \A i, j \in 1..Len(builder.wheres) :
          (i < j /\ builder.wheres[j] # CallerPredicate) => builder.wheres[i] # CallerPredicate

-----------------------------------------------------------------------------
(* Properties of getAttribute / setAttribute *)

\* C19: for a key with a cast strategy C (an object with get and set, such as
\* MoneyCast) or with mutators, set(key, v) stores C.set(v) (or the set
\* mutator's result) and get(key) returns C.get of the stored value (or the get
\* mutator's result); a key with neither passes through raw.
C19_CastAndMutatorApplied ==
    keyStage = "read" =>
        /\ keyCast = "strategy" =>
              /\ keyStored = castSet("money", keyInput)
              /\ keyRead = castGet("money", keyStored)
        /\ keyCast = "mutator" =>
              /\ keyStored = mutatorSet(keyInput)
              /\ keyRead = mutatorGet(keyStored)
        /\ keyCast = "none" => (keyStored = keyInput /\ keyRead = keyStored)

-----------------------------------------------------------------------------
(* Properties of eager loading a BelongsToMany relation *)

\* The related entities an owner is linked to by pivot rows, each with the
\* requested pivot column under pivot.
Linked(m) ==
    {[id |-> p.related, pivot |-> p.c] :
        p \in {q \in linkPivot : q.owner = m /\ q.related \in linkRelated}}

\* C21: eager loading a BelongsToMany relation on owners P1..Pn attaches to
\* each Pi exactly the related entities a pivot row links to Pi, each with the
\* requested pivot column exposed under its pivot attribute.
C21_EagerBelongsToMany ==
    (linkPc = "done" /\ Len(linkModels) > 0)
        => \A i \in 1..Len(linkModels) :
              linkRelations[i] = [loaded |-> TRUE, rows |-> Linked(linkModels[i])]

-----------------------------------------------------------------------------
(* Properties of lifecycle handlers *)

\* C27: handlers registered on a type fire only for entities of that type:
\* saving or deleting an entity of type B invokes no handler registered on A.
C27_HandlersOfTheType ==
    evOp.kind = "fire" => \A i \in 1..Len(evFired) : evFired[i].owner = evOp.type

-----------------------------------------------------------------------------
(* Properties of pagination and of clone *)

\* C28: for a soft-delete type, paginate(page, perPage) on a builder in the
\* default visibility reports as total the number of rows the builder's get()
\* returns, so that lastPage, to and nextPage agree with the rows delivered.
C28_TotalCountsVisibleRows ==
    (pgSoft /\ pgOp.kind = "paginate" /\ pgMode = DefaultMode)
        => LET visible == Len(getRows(pgSoft, pgMode, pgTable))
               page == pgOp.offset \div pgOp.limit + 1
           IN  /\ pgResult.total = visible
               /\ pgResult.lastPage = lastPageOf(visible, pgOp.limit)
               /\ pgResult.nextPage = (IF page < lastPageOf(visible, pgOp.limit)
                                       THEN page + 1 ELSE 0)
               /\ pgResult.to = (IF pgResult.data = <<>> THEN 0
                                 ELSE pgOp.offset + Len(pgResult.data))

\* C29: after withTrashed() or onlyTrashed(), the rows paginate(),
\* cursorPaginate(), cursor() and lazy() deliver are the rows get() on the
\* builder delivers, cut to the call's offset and limit.
C29_ClonePreservesMode ==
    pgOp.kind \in {"paginate", "cursorPaginate", "cursor"}
        => pgResult.data = slice(getRows(pgSoft, pgMode, pgTable), pgOp.offset, pgOp.limit)

-----------------------------------------------------------------------------
(* Properties of firstOrCreate *)

\* C30: under any interleaving of two concurrent firstOrCreate(attrs) calls
\* with the same attrs, at most one matching row is inserted and both calls
\* return an entity of that same row.
C30_FirstOrCreateOnce ==
    (\A p \in Callers : focPc[p] \in {"done", "raised"})
        => /\ Cardinality(focInserted) <= 1
           /\ \A p, q \in Callers :
                 /\ focPc[p] = "done"
                 /\ focRet[p] = focRet[q]
                 /\ focRet[p] \in focRows

=============================================================================
